---------------------------- MODULE Spec2Model ----------------------------
(***************************************************************************)
(* Persona+ (astrbot_plugin_persona_plus): keyword mapping configuration,  *)
(* keyword matching, the permission gate, and the scoped persona switch,   *)
(* modelled from src/main.py, src/core/*.py and src/qq_profile_sync.py.    *)
(*                                                                         *)
(* Text is a sequence of one-character strings, so that trimming,          *)
(* partitioning, lower-casing and substring search are computed and not    *)
(* assumed.                                                                *)
(***************************************************************************)
EXTENDS Integers, Sequences, FiniteSets, TLC

VARIABLES
    pc,                       \* "constructing" (before _load_config) or "ready"
    config,                   \* the plugin configuration handed over by the host
    parse_call,               \* the last direct parse_mapping_entry call: its line and result
    keyword_mappings,         \* PersonaPlus.keyword_mappings
    auto_switch_scope,        \* PersonaPlus.auto_switch_scope
    keyword_switch_enabled,   \* PersonaPlus.keyword_switch_enabled
    admin_commands,           \* PersonaPlus.admin_commands
    auto_switch_announce,     \* PersonaPlus.auto_switch_announce
    clear_context_on_switch,  \* PersonaPlus.clear_context_on_switch
    manage_wait_timeout,      \* PersonaPlus.manage_wait_timeout, in seconds
    qq,                       \* QQProfileSync settings (enabled, sync_nickname, ...)
    last_synced,              \* QQProfileSync._last_synced_persona: bot key -> persona
    avatars,                  \* personas that have an avatar file in avatar_dir
    platform,                 \* the bot account on the platform: nickname, card, avatar
    personas,                 \* host persona store: the persona ids it holds
    configs,                  \* host configs: one per origin and the default one
    conversations,            \* host conversation store
    curr_cid,                 \* host: current conversation id of each origin
    prompts,                  \* host persona store: the system prompt of each persona
    persona_files,            \* personas that have a text file in persona_data_dir
    waits,                    \* armed wait flows
    syncs,                    \* the switch of each origin suspended at a platform call
    inbound,                  \* the message the host is passing to the listeners
    last                      \* the event handled last and what its handler did

settingsVars == <<keyword_mappings, auto_switch_scope, keyword_switch_enabled,
                  admin_commands, auto_switch_announce, clear_context_on_switch,
                  manage_wait_timeout, qq>>
configVars == <<pc, config, parse_call>>
syncVars == <<last_synced, avatars, platform>>
hostVars == <<personas, configs, conversations, curr_cid, prompts, persona_files>>
flightVars == <<syncs, inbound>>
vars == <<configVars, settingsVars, syncVars, hostVars, waits, flightVars, last>>

-----------------------------------------------------------------------------
(* Bounds *)

\* longest raw keyword_mappings text drawn at construction
MaxRawLen == 7

\* longest entry handed to parse_mapping_entry
MaxLineLen == 5

\* most chat turns the host appends to one conversation
MaxHistory == 1

\* most wait flows armed at a time
MaxWaits == 2

\* ticks of the clock a wait flow waits before it times out
WaitTicks == 2

\* longest text drawn for manage_wait_timeout_seconds
MaxTimeoutLen == 3

\* largest magnitude of a number drawn for manage_wait_timeout_seconds
MaxTimeout == 3

\* longest message text handed to the keyword matcher
MaxTextLen == 3

-----------------------------------------------------------------------------
(* Text helpers: Python str methods on sequences of characters *)

NL == "\n"
Colon == ":"
Hash == "#"
Blank == " "

\* the characters configuration text is drawn from
ConfigChars == {"a", Colon, Blank, Hash, NL}

\* str.isspace for the characters of the model
IsSpace(c) == c \in {Blank, NL}

RECURSIVE LStrip(_)
LStrip(s) ==
    IF s = <<>> THEN <<>>
    ELSE IF IsSpace(Head(s)) THEN LStrip(Tail(s))
    ELSE s

RECURSIVE RStrip(_)
RStrip(s) ==
    IF s = <<>> THEN <<>>
    ELSE IF IsSpace(s[Len(s)]) THEN RStrip(SubSeq(s, 1, Len(s) - 1))
    ELSE s

\* str.strip()
Strip(s) == RStrip(LStrip(s))

\* str.splitlines(): a line break ends a line; no empty last line is produced
RECURSIVE SplitFrom(_, _, _)
SplitFrom(s, i, cur) ==
    IF i > Len(s) THEN (IF cur = <<>> THEN <<>> ELSE <<cur>>)
    ELSE IF s[i] = NL THEN <<cur>> \o SplitFrom(s, i + 1, <<>>)
    ELSE SplitFrom(s, i + 1, Append(cur, s[i]))

SplitLines(s) == SplitFrom(s, 1, <<>>)

\* str.find(c) from position i; 0 when c does not occur
RECURSIVE FindFrom(_, _, _)
FindFrom(s, c, i) ==
    IF i > Len(s) THEN 0
    ELSE IF s[i] = c THEN i
    ELSE FindFrom(s, c, i + 1)

\* str.rpartition(sep): splits at the last separator
RPartition(s, sep) ==
    LET at == {i \in 1..Len(s) : s[i] = sep}
        i == IF at = {} THEN 0 ELSE CHOOSE k \in at : \A j \in at : j <= k
    IN  IF i = 0 THEN <<s, <<>>, <<>>>>
        ELSE <<SubSeq(s, 1, i - 1), <<sep>>, SubSeq(s, i + 1, Len(s))>>

\* str.partition(sep) for a one-character separator: <<left, sep, right>>
Partition(s, sep) ==
    LET i == FindFrom(s, sep, 1)
    IN  IF i = 0 THEN <<s, <<>>, <<>>>>
        ELSE <<SubSeq(s, 1, i - 1), <<sep>>, SubSeq(s, i + 1, Len(s))>>

\* str.startswith(c) for a one-character prefix
StartsWith(s, c) == s # <<>> /\ s[1] = c

\* str.lower() on one character of the model's alphabet
LowerCh(c) ==
    CASE c = "A" -> "a"
      [] c = "B" -> "b"
      [] c = "P" -> "p"
      [] c = "V" -> "v"
      [] OTHER -> c

\* str.lower()
Lower(s) == [i \in 1..Len(s) |-> LowerCh(s[i])]

\* whether needle occurs in hay at offset i (0-based)
OccursAt(needle, hay, i) ==
    /\ i + Len(needle) <= Len(hay)
    /\ SubSeq(hay, i + 1, i + Len(needle)) = needle

\* needle in hay: scan the offsets from the left
RECURSIVE ScanFrom(_, _, _)
ScanFrom(needle, hay, i) ==
    IF i + Len(needle) > Len(hay) THEN FALSE
    ELSE IF OccursAt(needle, hay, i) THEN TRUE
    ELSE ScanFrom(needle, hay, i + 1)

StrIn(needle, hay) == ScanFrom(needle, hay, 0)

\* str.split(): the words between runs of blanks
RECURSIVE WordsFrom(_, _, _)
WordsFrom(s, i, cur) ==
    IF i > Len(s) THEN (IF cur = <<>> THEN <<>> ELSE <<cur>>)
    ELSE IF IsSpace(s[i])
         THEN (IF cur = <<>> THEN <<>> ELSE <<cur>>) \o WordsFrom(s, i + 1, <<>>)
    ELSE WordsFrom(s, i + 1, Append(cur, s[i]))

Split(s) == WordsFrom(s, 1, <<>>)

-----------------------------------------------------------------------------
(* Keyword mappings *)

KeywordMapping(k, p) == [keyword |-> k, persona_id |-> p, reply_template |-> <<>>]

Parsed(m) == [ok |-> TRUE, err |-> "", mapping |-> m]
ParseError(e) == [ok |-> FALSE, err |-> e, mapping |-> KeywordMapping(<<>>, <<>>)]

NoResult == [ok |-> FALSE, err |-> "not called", mapping |-> KeywordMapping(<<>>, <<>>)]

\* match_keyword returned None
NoMatch == [found |-> FALSE, mapping |-> KeywordMapping(<<>>, <<>>)]
Match(m) == [found |-> TRUE, mapping |-> m]

NoParseCall == [entry |-> <<>>, result |-> NoResult]

\* parse_mapping_entry / PersonaPlus._parse_mapping_entry
parse_mapping_entry(entry) ==
    LET parts == Partition(entry, Colon)
        left == parts[1]
        sep == parts[2]
        right == parts[3]
        persona_id == Strip(right)
        keyword == Strip(left)
    IN  IF sep = <<>> THEN ParseError("InvalidFormat")
        ELSE IF persona_id = <<>> THEN ParseError("InvalidPersonaId")
        ELSE IF keyword = <<>> THEN ParseError("InvalidKeyword")
        ELSE Parsed(KeywordMapping(keyword, persona_id))

\* the host handed over no keyword_mappings value (config.get returned None)
NoneRaw == <<"<None>">>

\* a loop without the try/except: the first malformed line ends the loading
RECURSIVE LoadEntriesAbort(_, _)
LoadEntriesAbort(entries, loaded) ==
    IF entries = <<>> THEN loaded
    ELSE LET entry == Strip(Head(entries))
             r == parse_mapping_entry(entry)
         IN  IF entry = <<>> \/ StartsWith(entry, Hash)
             THEN LoadEntriesAbort(Tail(entries), loaded)
             ELSE IF r.ok THEN LoadEntriesAbort(Tail(entries), Append(loaded, r.mapping))
             ELSE loaded

\* the loop of _load_config / load_settings over the configuration lines
RECURSIVE LoadEntries(_, _)
LoadEntries(entries, loaded) ==
    IF entries = <<>> THEN loaded
    ELSE LET entry == Strip(Head(entries))
             r == parse_mapping_entry(entry)
         IN  IF entry = <<>> \/ StartsWith(entry, Hash)
             THEN LoadEntries(Tail(entries), loaded)
             ELSE IF r.ok THEN LoadEntries(Tail(entries), Append(loaded, r.mapping))
             ELSE LoadEntries(Tail(entries), loaded)

\* keyword_mappings as _load_config / load_settings computes it
LoadMappings(raw) ==
    LET entries == IF raw = NoneRaw THEN <<>> ELSE SplitLines(raw)
        loaded == LoadEntries(entries, <<>>)
    IN  SelectSeq(loaded, LAMBDA m : m.keyword # <<>> /\ m.persona_id # <<>>)

-----------------------------------------------------------------------------
(* Command names and settings *)

CmdHelp == <<"h", "e", "l", "p">>
CmdList == <<"l", "i", "s", "t">>
CmdView == <<"v", "i", "e", "w">>
CmdCreate == <<"c", "r", "e", "a", "t", "e">>
CmdUpdate == <<"u", "p", "d", "a", "t", "e">>
CmdAvatar == <<"a", "v", "a", "t", "a", "r">>
CmdDelete == <<"d", "e", "l", "e", "t", "e">>
CmdSwitch == <<"s", "w", "i", "t", "c", "h">>

\* the names the handlers pass to check_permission
CommandNames == {CmdHelp, CmdList, CmdView, CmdCreate, CmdUpdate, CmdAvatar,
                 CmdDelete, CmdSwitch}

\* PersonaPlus.__init__ and load_config's fallback for admin_commands
DefaultAdminCommands == {CmdCreate, CmdUpdate, CmdDelete}

\* QQProfileSync.load_config
LoadSyncSettings(cfg) ==
    IF ~cfg.present
    THEN [enabled |-> TRUE, sync_nickname |-> TRUE, sync_avatar |-> FALSE,
          nickname_sync_mode |-> "profile"]
    ELSE [enabled |-> cfg.sync_nickname_on_switch \/ cfg.sync_avatar_on_switch,
          sync_nickname |-> cfg.sync_nickname_on_switch,
          sync_avatar |-> cfg.sync_avatar_on_switch,
          nickname_sync_mode |->
              IF cfg.nickname_sync_mode \in {"profile", "group_card", "hybrid"}
              THEN cfg.nickname_sync_mode ELSE "profile"]

\* manage_wait_timeout as PersonaPlus.__init__ sets it
InitialWaitTimeout == 120

\* the default of manage_wait_timeout_seconds and the value _load_config
\* falls back to
DefaultWaitTimeout == 60

\* values of manage_wait_timeout_seconds: the key is missing, or holds None,
\* an integer, a boolean, a float (counted in halves) or a text
MissingTimeout == [kind |-> "missing", value |-> 0, text |-> <<>>]
IntTimeout(n) == [MissingTimeout EXCEPT !.kind = "int", !.value = n]
TextTimeout(t) == [MissingTimeout EXCEPT !.kind = "str", !.text = t]

\* the value of a decimal digit, -1 for another character
DigitValue(c) ==
    CASE c = "0" -> 0 [] c = "1" -> 1 [] c = "7" -> 7 [] OTHER -> -1

\* the number a non-empty sequence of digits denotes
RECURSIVE DigitsValue(_)
DigitsValue(t) ==
    IF t = <<>> THEN 0 ELSE 10 * DigitsValue(SubSeq(t, 1, Len(t) - 1)) + DigitValue(t[Len(t)])

\* int(raw): blanks around a text are dropped, then an optional sign and at
\* least one digit are required; a float is truncated towards zero; None
\* raises TypeError and a text that is no number raises ValueError
ToInt(raw) ==
    LET t == Strip(raw.text)
        d == IF t # <<>> /\ t[1] = "-" THEN Tail(t) ELSE t
        h == raw.value
    IN  CASE raw.kind = "int" -> [ok |-> TRUE, value |-> raw.value]
          [] raw.kind = "bool" -> [ok |-> TRUE, value |-> raw.value]
          [] raw.kind = "float" ->
                [ok |-> TRUE, value |-> IF h >= 0 THEN h \div 2 ELSE -((-h) \div 2)]
          [] raw.kind = "str" ->
                IF d # <<>> /\ \A i \in 1..Len(d) : DigitValue(d[i]) >= 0
                THEN [ok |-> TRUE, value |-> IF d = t THEN DigitsValue(d) ELSE -DigitsValue(d)]
                ELSE [ok |-> FALSE, value |-> 0]
          [] OTHER -> [ok |-> FALSE, value |-> 0]

\* PersonaPlus._load_config: manage_wait_timeout from the configuration
LoadWaitTimeout(cfg) ==
    LET raw == IF cfg.manage_wait_timeout_seconds.kind = "missing"
               THEN IntTimeout(DefaultWaitTimeout)
               ELSE cfg.manage_wait_timeout_seconds
        timeout == IF ToInt(raw).ok THEN ToInt(raw).value ELSE DefaultWaitTimeout
    IN  IF timeout <= 0 THEN DefaultWaitTimeout ELSE timeout

\* the attributes PersonaPlus.__init__ sets before it calls _load_config
InitialSettings ==
    [keyword_mappings |-> <<>>,
     auto_switch_scope |-> "conversation",
     keyword_switch_enabled |-> TRUE,
     admin_commands |-> DefaultAdminCommands,
     auto_switch_announce |-> FALSE,
     clear_context_on_switch |-> FALSE,
     manage_wait_timeout |-> InitialWaitTimeout,
     qq |-> [enabled |-> FALSE, sync_nickname |-> TRUE, sync_avatar |-> FALSE,
             nickname_sync_mode |-> "profile"]]

\* PersonaPlus._load_config: the settings it leaves in the plugin
LoadSettings(cfg) ==
    IF ~cfg.present
    THEN [InitialSettings EXCEPT !.qq = LoadSyncSettings(cfg)]
    ELSE [keyword_mappings |-> LoadMappings(cfg.keyword_mappings),
          auto_switch_scope |-> cfg.auto_switch_scope,
          keyword_switch_enabled |-> cfg.enable_keyword_switching,
          admin_commands |->
              IF cfg.admin_commands_is_list
              THEN {Strip(Lower(c)) : c \in cfg.admin_commands}
              ELSE DefaultAdminCommands,
          auto_switch_announce |-> cfg.enable_auto_switch_announce,
          clear_context_on_switch |-> cfg.clear_context_on_switch,
          manage_wait_timeout |-> LoadWaitTimeout(cfg),
          qq |-> LoadSyncSettings(cfg)]

\* a configuration that holds the default of every key but keyword_mappings
ConfigWith(raw) ==
    [present |-> TRUE,
     keyword_mappings |-> raw,
     auto_switch_scope |-> "conversation",
     enable_keyword_switching |-> TRUE,
     admin_commands_is_list |-> TRUE,
     admin_commands |-> DefaultAdminCommands,
     enable_auto_switch_announce |-> FALSE,
     clear_context_on_switch |-> FALSE,
     manage_wait_timeout_seconds |-> MissingTimeout,
     sync_nickname_on_switch |-> TRUE,
     sync_avatar_on_switch |-> FALSE,
     nickname_sync_mode |-> "profile"]

\* the plugin was constructed without a configuration (config is None)
NoConfig == [ConfigWith(NoneRaw) EXCEPT !.present = FALSE]

SettingsAre(st) ==
    /\ keyword_mappings = st.keyword_mappings
    /\ auto_switch_scope = st.auto_switch_scope
    /\ keyword_switch_enabled = st.keyword_switch_enabled
    /\ admin_commands = st.admin_commands
    /\ auto_switch_announce = st.auto_switch_announce
    /\ clear_context_on_switch = st.clear_context_on_switch
    /\ manage_wait_timeout = st.manage_wait_timeout
    /\ qq = st.qq

-----------------------------------------------------------------------------
(* Keyword matcher *)

\* KeywordMapping.matches
matches(m, text) == StrIn(Lower(m.keyword), Lower(text))

\* match_keyword scanning from the end of the list
RECURSIVE match_keyword_last(_, _)
match_keyword_last(mappings, text) ==
    IF mappings = <<>> THEN NoMatch
    ELSE IF matches(mappings[Len(mappings)], text) THEN Match(mappings[Len(mappings)])
    ELSE match_keyword_last(SubSeq(mappings, 1, Len(mappings) - 1), text)

\* match_keyword: the first mapping in list order that matches
RECURSIVE match_keyword(_, _)
match_keyword(mappings, text) ==
    IF mappings = <<>> THEN NoMatch
    ELSE IF matches(Head(mappings), text) THEN Match(Head(mappings))
    ELSE match_keyword(Tail(mappings), text)

-----------------------------------------------------------------------------
(* Permission gate *)

Senders == {"admin", "user"}

\* the host's admins_id list
AdminIds == {"admin"}

\* is_admin / PersonaPlus._is_admin
is_admin(sender) == sender \in AdminIds

\* a gate that never consults admin_commands
check_permission_open(sender, command, admin_cmds) == TRUE

\* check_permission / PersonaPlus.check_permission: TRUE when allowed
check_permission(sender, command, admin_cmds) ==
    ~(command \in admin_cmds /\ ~is_admin(sender))

-----------------------------------------------------------------------------
(* Host state: personas, configs, conversations *)

PA == <<"a">>
PB == <<"b">>
PersonaIds == {PA, PB}

Origins == {"o1", "o2"}
ConfIds == Origins \cup {"default"}

\* provider_settings of a config: absent, or a dict with default_personality
\* (<<>> when the key is not set)
NoProvider == [has_provider |-> FALSE, default_personality |-> <<>>]
ProviderWith(pid) == [has_provider |-> TRUE, default_personality |-> pid]

\* the host has no config object for the origin (get_conf returns None)
NoConf == [present |-> FALSE, other_keys |-> FALSE, mem |-> NoProvider, disk |-> NoProvider]
\* an empty config dict
EmptyConf == [present |-> TRUE, other_keys |-> FALSE, mem |-> NoProvider, disk |-> NoProvider]
\* a config with keys of its own and no provider_settings yet
PlainConf == [present |-> TRUE, other_keys |-> TRUE, mem |-> NoProvider, disk |-> NoProvider]

\* bool(config): a dict is true when it has a key
Truthy(c) == c.present /\ (c.other_keys \/ c.mem.has_provider)

Cids == {"c1", "c2", "c3"}
NoCid == ""

\* the conversations the host holds at start: c1 of o1, c2 of o2; c3 is free
NoConversation == [exists |-> FALSE, origin |-> "", persona_id |-> <<>>, history |-> <<>>]
NewConversation(o) == [exists |-> TRUE, origin |-> o, persona_id |-> <<>>, history |-> <<>>]

StartConversations ==
    [c \in Cids |-> CASE c = "c1" -> NewConversation("o1")
                      [] c = "c2" -> NewConversation("o2")
                      [] OTHER -> NoConversation]

\* the system prompts of the personas the host holds at start
StartPrompts(held) ==
    [p \in PersonaIds \cup {<<"c">>} |-> IF p \in held THEN <<"p">> ELSE <<>>]

BotKeys == {"qq:bot"}
NoPlatformProfile == [nickname |-> <<>>, card |-> <<>>, avatar |-> <<>>]

\* no switch of the origin is suspended in maybe_sync_profile
NotSyncing ==
    [at |-> "none", bot_key |-> "", persona_id |-> <<>>, nickname_applied |-> FALSE,
     avatar_synced |-> FALSE, announce |-> <<>>]

NoSyncs == [o \in Origins |-> NotSyncing]

\* the host is passing no message to the listeners
NoInbound ==
    [present |-> FALSE, todo |-> {}, switches |-> 0,
     event |-> [origin |-> "", sender |-> "", wake |-> FALSE, text |-> <<>>,
                is_qq |-> FALSE, group |-> FALSE, bot_key |-> ""]]

\* the host's account of the message it is passing on, after the listener op
\* ran on it: a stopped event reaches no further listener
AfterListener(op, stopped, switched) ==
    IF ~inbound.present THEN inbound
    ELSE [inbound EXCEPT !.todo = IF stopped THEN {} ELSE @ \ {op},
                         !.switches = @ + (IF switched THEN 1 ELSE 0)]

\* nothing was handled yet
Idle ==
    [op |-> "none", origin |-> "", sender |-> "", text |-> <<>>, persona_id |-> <<>>,
     calls |-> <<>>, replies |-> <<>>, ltm |-> FALSE, stopped |-> FALSE,
     raised |-> FALSE, switched |-> FALSE, matched |-> NoMatch,
     failed |-> {}, again |-> FALSE,
     mode |-> "", comps |-> <<>>, outcome |-> "", file |-> "none"]

\* a host with one persona, plain configs and no current conversation
QuietHost ==
    /\ personas = {PA}
    /\ configs = [c \in ConfIds |-> PlainConf]
    /\ conversations = StartConversations
    /\ curr_cid = [o \in Origins |-> NoCid]
    /\ last_synced = [b \in BotKeys |-> <<>>]
    /\ avatars = {}
    /\ platform = NoPlatformProfile
    /\ waits = {}
    /\ syncs = NoSyncs
    /\ inbound = NoInbound
    /\ prompts = StartPrompts(personas)
    /\ persona_files = {}
    /\ last = Idle

-----------------------------------------------------------------------------
(* Events and replies *)

\* a chat reply: what it says and the persona it names
Reply(kind, pid) == [kind |-> kind, persona_id |-> pid, action |-> "", reason |-> ""]
\* "此操作需要管理员权限。"
Denied == Reply("denied", <<>>)

\* how each platform call of one profile sync ends
CallOutcomes == {"ok", "fail"}
SyncOutcomes == [nick : CallOutcomes, card : CallOutcomes, avatar : CallOutcomes]

\* the record of an event as its handler starts
Handling(op, e) ==
    [Idle EXCEPT !.op = op, !.origin = e.origin, !.sender = e.sender, !.text = e.text]

-----------------------------------------------------------------------------
(* Profile sync: QQProfileSync.maybe_sync_profile *)

\* QQProfileSync.format_nickname with the default template "{persona_id}"
format_nickname(pid) == pid

SyncSkipped ==
    [last_synced |-> last_synced, platform |-> platform, calls |-> <<>>,
     failed |-> {}]

\* the platform calls of one sync that ended in an exception
FailedCalls(nick_call, avatar_call, out) ==
    (IF nick_call = "set_qq_profile" /\ out.nick = "fail" THEN {"set_qq_profile"} ELSE {})
    \cup (IF nick_call = "set_group_card" /\ out.card = "fail" THEN {"set_group_card"} ELSE {})
    \cup (IF avatar_call /\ out.avatar = "fail" THEN {"set_qq_avatar"} ELSE {})

\* a sync that gives up the avatar once the nickname call failed
maybe_sync_profile_chained(e, pid, force, out) ==
    LET sync_nickname == force \/ qq.sync_nickname
        sync_avatar == force \/ qq.sync_avatar
        bot_key == e.bot_key
        is_group == e.group
        nick_call ==
            IF ~sync_nickname THEN "none"
            ELSE CASE qq.nickname_sync_mode = "profile" -> "set_qq_profile"
                   [] qq.nickname_sync_mode = "group_card" ->
                          IF is_group THEN "set_group_card" ELSE "none"
                   [] qq.nickname_sync_mode = "hybrid" ->
                          IF is_group THEN "set_group_card" ELSE "set_qq_profile"
                   [] OTHER -> "none"
        nickname_applied ==
            \/ nick_call = "set_qq_profile" /\ out.nick = "ok"
            \/ nick_call = "set_group_card" /\ out.card = "ok"
        avatar_call == sync_avatar /\ pid \in avatars /\ (nick_call = "none" \/ nickname_applied)
        avatar_synced == avatar_call /\ out.avatar = "ok"
        after_nick ==
            IF nick_call = "set_qq_profile" /\ out.nick = "ok"
            THEN [platform EXCEPT !.nickname = format_nickname(pid)]
            ELSE IF nick_call = "set_group_card" /\ out.card = "ok"
            THEN [platform EXCEPT !.card = format_nickname(pid)]
            ELSE platform
        after_avatar ==
            IF avatar_synced THEN [after_nick EXCEPT !.avatar = pid] ELSE after_nick
    IN  IF ~e.is_qq THEN SyncSkipped
        ELSE IF ~(qq.enabled \/ force) THEN SyncSkipped
        ELSE IF ~(sync_nickname \/ sync_avatar) THEN SyncSkipped
        ELSE IF ~force /\ last_synced[bot_key] = pid THEN SyncSkipped
        ELSE [last_synced |->
                  IF nickname_applied \/ avatar_synced
                  THEN [last_synced EXCEPT ![bot_key] = pid]
                  ELSE last_synced,
              platform |-> after_avatar,
              calls |-> (IF nick_call = "none" THEN <<>> ELSE <<nick_call>>)
                        \o (IF avatar_call THEN <<"set_qq_avatar">> ELSE <<>>),
              failed |-> FailedCalls(nick_call, avatar_call, out)]

\* a sync that records the persona whether or not a step was applied
maybe_sync_profile_always_cached(e, pid, force, out) ==
    LET sync_nickname == force \/ qq.sync_nickname
        sync_avatar == force \/ qq.sync_avatar
        bot_key == e.bot_key
        is_group == e.group
        nick_call ==
            IF ~sync_nickname THEN "none"
            ELSE CASE qq.nickname_sync_mode = "profile" -> "set_qq_profile"
                   [] qq.nickname_sync_mode = "group_card" ->
                          IF is_group THEN "set_group_card" ELSE "none"
                   [] qq.nickname_sync_mode = "hybrid" ->
                          IF is_group THEN "set_group_card" ELSE "set_qq_profile"
                   [] OTHER -> "none"
        nickname_applied ==
            \/ nick_call = "set_qq_profile" /\ out.nick = "ok"
            \/ nick_call = "set_group_card" /\ out.card = "ok"
        avatar_call == sync_avatar /\ pid \in avatars
        avatar_synced == avatar_call /\ out.avatar = "ok"
        after_nick ==
            IF nick_call = "set_qq_profile" /\ out.nick = "ok"
            THEN [platform EXCEPT !.nickname = format_nickname(pid)]
            ELSE IF nick_call = "set_group_card" /\ out.card = "ok"
            THEN [platform EXCEPT !.card = format_nickname(pid)]
            ELSE platform
        after_avatar ==
            IF avatar_synced THEN [after_nick EXCEPT !.avatar = pid] ELSE after_nick
    IN  IF ~e.is_qq THEN SyncSkipped
        ELSE IF ~(qq.enabled \/ force) THEN SyncSkipped
        ELSE IF ~(sync_nickname \/ sync_avatar) THEN SyncSkipped
        ELSE IF ~force /\ last_synced[bot_key] = pid THEN SyncSkipped
        ELSE [last_synced |->
                  [last_synced EXCEPT ![bot_key] = pid],
              platform |-> after_avatar,
              calls |-> (IF nick_call = "none" THEN <<>> ELSE <<nick_call>>)
                        \o (IF avatar_call THEN <<"set_qq_avatar">> ELSE <<>>),
              failed |-> FailedCalls(nick_call, avatar_call, out)]

\* maybe_sync_profile(event, persona_id, force): the cache, the platform
\* profile and the platform calls it leaves, given how each call ends
maybe_sync_profile(e, pid, force, out) ==
    LET sync_nickname == force \/ qq.sync_nickname
        sync_avatar == force \/ qq.sync_avatar
        bot_key == e.bot_key
        is_group == e.group
        nick_call ==
            IF ~sync_nickname THEN "none"
            ELSE CASE qq.nickname_sync_mode = "profile" -> "set_qq_profile"
                   [] qq.nickname_sync_mode = "group_card" ->
                          IF is_group THEN "set_group_card" ELSE "none"
                   [] qq.nickname_sync_mode = "hybrid" ->
                          IF is_group THEN "set_group_card" ELSE "set_qq_profile"
                   [] OTHER -> "none"
        nickname_applied ==
            \/ nick_call = "set_qq_profile" /\ out.nick = "ok"
            \/ nick_call = "set_group_card" /\ out.card = "ok"
        avatar_call == sync_avatar /\ pid \in avatars
        avatar_synced == avatar_call /\ out.avatar = "ok"
        after_nick ==
            IF nick_call = "set_qq_profile" /\ out.nick = "ok"
            THEN [platform EXCEPT !.nickname = format_nickname(pid)]
            ELSE IF nick_call = "set_group_card" /\ out.card = "ok"
            THEN [platform EXCEPT !.card = format_nickname(pid)]
            ELSE platform
        after_avatar ==
            IF avatar_synced THEN [after_nick EXCEPT !.avatar = pid] ELSE after_nick
    IN  IF ~e.is_qq THEN SyncSkipped
        ELSE IF ~(qq.enabled \/ force) THEN SyncSkipped
        ELSE IF ~(sync_nickname \/ sync_avatar) THEN SyncSkipped
        ELSE IF ~force /\ last_synced[bot_key] = pid THEN SyncSkipped
        ELSE [last_synced |->
                  IF nickname_applied \/ avatar_synced
                  THEN [last_synced EXCEPT ![bot_key] = pid]
                  ELSE last_synced,
              platform |-> after_avatar,
              calls |-> (IF nick_call = "none" THEN <<>> ELSE <<nick_call>>)
                        \o (IF avatar_call THEN <<"set_qq_avatar">> ELSE <<>>),
              failed |-> FailedCalls(nick_call, avatar_call, out)]

-----------------------------------------------------------------------------
(* Persona switch: core/switching.py and PersonaPlus._switch_persona *)

\* config.save_config(): what is in memory goes to disk
SaveConfig(c) == [c EXCEPT !.disk = c.mem]

\* provider_settings["default_personality"] = persona_id, after setdefault
SetDefaultPersonality(c, pid) == [c EXCEPT !.mem = ProviderWith(pid)]

\* set_default_persona that writes the default config whatever the scope
set_default_persona_always_global(cfgs, scope, umo, pid) ==
    [configs |-> [cfgs EXCEPT !["default"] = SaveConfig(SetDefaultPersonality(@, pid))],
     calls |-> <<"default_conf", "write_default_conf", "save_default_conf">>]

\* set_default_persona that sets the key and does not save
set_default_persona_unsaved(cfgs, scope, umo, pid) ==
    IF scope = "session"
    THEN IF Truthy(cfgs[umo])
         THEN [configs |-> [cfgs EXCEPT ![umo] = SetDefaultPersonality(@, pid)],
               calls |-> <<"get_conf", "write_origin_conf">>]
         ELSE [configs |-> cfgs, calls |-> <<"get_conf">>]
    ELSE IF scope = "global"
    THEN [configs |-> [cfgs EXCEPT !["default"] = SetDefaultPersonality(@, pid)],
          calls |-> <<"default_conf", "write_default_conf">>]
    ELSE [configs |-> cfgs, calls |-> <<>>]

\* set_default_persona / PersonaPlus._set_default_persona
set_default_persona(cfgs, scope, umo, pid) ==
    IF scope = "session"
    THEN IF Truthy(cfgs[umo])
         THEN [configs |-> [cfgs EXCEPT ![umo] = SaveConfig(SetDefaultPersonality(@, pid))],
               calls |-> <<"get_conf", "write_origin_conf", "save_origin_conf">>]
         ELSE [configs |-> cfgs, calls |-> <<"get_conf">>]
    ELSE IF scope = "global"
    THEN [configs |-> [cfgs EXCEPT !["default"] = SaveConfig(SetDefaultPersonality(@, pid))],
          calls |-> <<"default_conf", "write_default_conf", "save_default_conf">>]
    ELSE [configs |-> cfgs, calls |-> <<>>]

\* history=None: the host leaves the history as it is
NoHistoryChange == <<"<None>">>

\* an update that records the switch as a turn of the history
HostUpdateConversationLogged(convs, cid, pid, history) ==
    [convs EXCEPT ![cid].persona_id = pid,
                  ![cid].history = (IF history = NoHistoryChange THEN @ ELSE history)
                                   \o <<"s">>]

\* conversation_manager.update_conversation(umo, cid, persona_id, history)
HostUpdateConversation(convs, cid, pid, history) ==
    [convs EXCEPT ![cid].persona_id = pid,
                  ![cid].history = IF history = NoHistoryChange THEN @ ELSE history]

\* update_current_conversation that updates every conversation of the host
update_current_conversation_all(convs, curr, umo, pid, history) ==
    [conversations |->
         [c \in Cids |-> IF convs[c].exists
                         THEN HostUpdateConversation(convs, c, pid, history)[c]
                         ELSE convs[c]],
     calls |-> <<"get_curr_conversation_id", "update_conversation">>]

\* update_current_conversation / PersonaPlus._update_current_conversation
update_current_conversation(convs, curr, umo, pid, history) ==
    LET cid == curr[umo]
    IN  IF cid = NoCid
        THEN [conversations |-> convs, calls |-> <<"get_curr_conversation_id">>]
        ELSE [conversations |-> HostUpdateConversation(convs, cid, pid, history),
              calls |-> <<"get_curr_conversation_id", "update_conversation">>]

\* a switch that failed at the persona lookup
SwitchNotFound ==
    [raised |-> TRUE, configs |-> configs, conversations |-> conversations,
     last_synced |-> last_synced, platform |-> platform,
     calls |-> <<"get_persona">>, replies |-> <<>>, ltm |-> FALSE, matched |-> NoMatch,
     failed |-> {}]

\* a switch that syncs the profile before it writes the config and the
\* conversation
SwitchStepsSyncFirst(e, pid, scope, clear, announce, flag_ltm, out) ==
    LET umo == e.origin
        history_reset == IF clear THEN <<>> ELSE NoHistoryChange
        conf == set_default_persona(configs, scope, umo, pid)
        conv == update_current_conversation(conversations, curr_cid, umo, pid, history_reset)
        ltm == flag_ltm /\ clear
        sync == maybe_sync_profile(e, pid, FALSE, out)
    IN  [raised |-> FALSE,
         configs |-> conf.configs,
         conversations |-> conv.conversations,
         last_synced |-> sync.last_synced,
         platform |-> sync.platform,
         calls |-> <<"get_persona", "maybe_sync_profile">> \o sync.calls
                   \o conf.calls \o conv.calls
                   \o (IF ltm THEN <<"set_extra">> ELSE <<>>)
                   \o (IF announce # <<>> THEN <<"plain_result">> ELSE <<>>),
         replies |-> announce,
         ltm |-> ltm,
         matched |-> NoMatch,
         failed |-> sync.failed]

\* a switch in which the exception of a failed platform call propagates:
\* the config and the conversation are written, the cache is not, and the
\* switch raises before its reply
SwitchStepsSyncUnguarded(e, pid, scope, clear, announce, flag_ltm, out) ==
    LET umo == e.origin
        history_reset == IF clear THEN <<>> ELSE NoHistoryChange
        conf == set_default_persona(configs, scope, umo, pid)
        conv == update_current_conversation(conversations, curr_cid, umo, pid, history_reset)
        ltm == flag_ltm /\ clear
        sync == maybe_sync_profile(e, pid, FALSE, out)
        broke == sync.failed # {}
    IN  [raised |-> broke,
         configs |-> conf.configs,
         conversations |-> conv.conversations,
         last_synced |-> IF broke THEN last_synced ELSE sync.last_synced,
         platform |-> sync.platform,
         calls |-> <<"get_persona">> \o conf.calls \o conv.calls
                   \o (IF ltm THEN <<"set_extra">> ELSE <<>>)
                   \o <<"maybe_sync_profile">> \o sync.calls
                   \o (IF announce # <<>> /\ ~broke THEN <<"plain_result">> ELSE <<>>),
         replies |-> IF broke THEN <<>> ELSE announce,
         ltm |-> ltm,
         matched |-> NoMatch,
         failed |-> sync.failed]

\* the steps of a switch after the lookup; flag_ltm tells whether this
\* version sets the _clean_ltm_session extra
SwitchSteps(e, pid, scope, clear, announce, flag_ltm, out) ==
    LET umo == e.origin
        history_reset == IF clear THEN <<>> ELSE NoHistoryChange
        conf == set_default_persona(configs, scope, umo, pid)
        conv == update_current_conversation(conversations, curr_cid, umo, pid, history_reset)
        ltm == flag_ltm /\ clear
        sync == maybe_sync_profile(e, pid, FALSE, out)
    IN  [raised |-> FALSE,
         configs |-> conf.configs,
         conversations |-> conv.conversations,
         last_synced |-> sync.last_synced,
         platform |-> sync.platform,
         calls |-> <<"get_persona">> \o conf.calls \o conv.calls
                   \o (IF ltm THEN <<"set_extra">> ELSE <<>>)
                   \o <<"maybe_sync_profile">> \o sync.calls
                   \o (IF announce # <<>> THEN <<"plain_result">> ELSE <<>>),
         replies |-> announce,
         ltm |-> ltm,
         matched |-> NoMatch,
         failed |-> sync.failed]

\* switch_persona of core/switching.py
switch_persona(e, pid, scope, clear, announce, out) ==
    IF pid \notin personas THEN SwitchNotFound
    ELSE SwitchSteps(e, pid, scope, clear, announce, TRUE, out)

\* PersonaPlus._switch_persona going on when the persona is missing
PersonaPlus_switch_persona_unchecked(e, pid, announce, out) ==
    SwitchSteps(e, pid, auto_switch_scope, clear_context_on_switch, announce, FALSE, out)

\* PersonaPlus._switch_persona resetting the history whatever the setting
PersonaPlus_switch_persona_clearing(e, pid, announce, out) ==
    IF pid \notin personas THEN SwitchNotFound
    ELSE SwitchSteps(e, pid, auto_switch_scope, TRUE, announce, FALSE, out)

\* PersonaPlus._switch_persona of main.py
PersonaPlus_switch_persona(e, pid, announce, out) ==
    IF pid \notin personas THEN SwitchNotFound
    ELSE SwitchSteps(e, pid, auto_switch_scope, clear_context_on_switch, announce,
                     FALSE, out)

\* the handler's record of a switch and the state the switch leaves
ApplySwitch(op, e, pid, r, stop) ==
    /\ configs' = r.configs
    /\ conversations' = r.conversations
    /\ last_synced' = r.last_synced
    /\ platform' = r.platform
    /\ last' = [Handling(op, e) EXCEPT
                   !.persona_id = pid, !.calls = r.calls, !.replies = r.replies,
                   !.ltm = r.ltm, !.raised = r.raised, !.switched = ~r.raised,
                   !.matched = r.matched,
                   !.failed = r.failed,
                   !.again = /\ last.op \in {"quick_switch", "on_message", "core_switch"}
                             /\ last.switched
                             /\ last.persona_id = pid
                             /\ last.origin = e.origin,
                   !.stopped = stop /\ r.replies # <<>>]
    /\ inbound' = AfterListener(op, stop /\ r.replies # <<>>, ~r.raised)
    /\ UNCHANGED <<syncs, configVars, settingsVars, avatars, personas, curr_cid, waits,
                   prompts, persona_files>>

\* the handler returned without touching anything but its event
Handled(rec) ==
    /\ last' = rec
    /\ inbound' = AfterListener(rec.op, rec.stopped, rec.switched)
    /\ UNCHANGED <<syncs, configVars, settingsVars, syncVars, hostVars, waits>>

-----------------------------------------------------------------------------
(* Construction of the plugin from a raw configuration *)

RECURSIVE TextsUpTo(_, _)
TextsUpTo(chars, n) ==
    IF n = 0 THEN {<<>>}
    ELSE LET shorter == TextsUpTo(chars, n - 1)
         IN  shorter \cup {Append(s, c) : s \in {t \in shorter : Len(t) = n - 1}, c \in chars}

InitConfig ==
    /\ pc = "constructing"
    /\ config \in {ConfigWith(raw) : raw \in TextsUpTo(ConfigChars, MaxRawLen) \cup {NoneRaw}}
                 \cup {NoConfig}
    /\ parse_call = NoParseCall
    /\ SettingsAre(InitialSettings)
    /\ QuietHost

\* PersonaPlus.__init__ line 57: _load_config()
LoadConfig ==
    /\ pc = "constructing"
    /\ LET st == LoadSettings(config)
       IN  /\ keyword_mappings' = st.keyword_mappings
           /\ auto_switch_scope' = st.auto_switch_scope
           /\ keyword_switch_enabled' = st.keyword_switch_enabled
           /\ admin_commands' = st.admin_commands
           /\ auto_switch_announce' = st.auto_switch_announce
           /\ clear_context_on_switch' = st.clear_context_on_switch
           /\ manage_wait_timeout' = st.manage_wait_timeout
           /\ qq' = st.qq
    /\ pc' = "ready"
    /\ UNCHANGED <<flightVars, config, parse_call, syncVars, hostVars, waits, last>>

NextConfig == LoadConfig

\* the values drawn for manage_wait_timeout_seconds
TimeoutChars == {"0", "1", "7", "-", "x", Blank}
TimeoutRaws ==
    {MissingTimeout, [MissingTimeout EXCEPT !.kind = "none"]}
    \cup {IntTimeout(n) : n \in -MaxTimeout..MaxTimeout}
    \cup {IntTimeout(DefaultWaitTimeout), IntTimeout(InitialWaitTimeout)}
    \cup {[IntTimeout(b) EXCEPT !.kind = "bool"] : b \in {0, 1}}
    \cup {[IntTimeout(h) EXCEPT !.kind = "float"] : h \in -MaxTimeout..MaxTimeout}
    \cup {TextTimeout(t) : t \in TextsUpTo(TimeoutChars, MaxTimeoutLen)}

\* construction with a configuration that holds any of the timeout values,
\* or without a configuration
InitTimeout ==
    /\ pc = "constructing"
    /\ config \in {[ConfigWith(<<>>) EXCEPT !.manage_wait_timeout_seconds = raw] :
                      raw \in TimeoutRaws}
                 \cup {NoConfig}
    /\ parse_call = NoParseCall
    /\ SettingsAre(InitialSettings)
    /\ QuietHost

SpecTimeout == InitTimeout /\ [][NextConfig]_vars

SpecConfig == InitConfig /\ [][NextConfig]_vars

-----------------------------------------------------------------------------
(* parse_mapping_entry on its own *)

LineChars == {"a", Colon, Blank, Hash}

\* the entry about to be parsed
InitParse ==
    /\ pc = "constructing"
    /\ config = NoConfig
    /\ parse_call \in {[entry |-> line, result |-> NoResult] :
                        line \in TextsUpTo(LineChars, MaxLineLen)}
    /\ SettingsAre(InitialSettings)
    /\ QuietHost

\* a direct call of parse_mapping_entry
ParseEntry ==
    /\ parse_call.result = NoResult
    /\ parse_call' = [parse_call EXCEPT !.result = parse_mapping_entry(parse_call.entry)]
    /\ UNCHANGED <<flightVars, pc, config, settingsVars, syncVars, hostVars, waits, last>>

NextParse == ParseEntry

SpecParse == InitParse /\ [][NextParse]_vars

-----------------------------------------------------------------------------
(* Event handlers of PersonaPlus (main.py) *)

Aliases == {<<"p", "p">>,
            <<"p", "e", "r", "s", "o", "n", "a", "_", "p", "l", "u", "s">>,
            <<"p", "e", "r", "s", "o", "n", "a", "+">>}

KnownSubcommands == {CmdHelp, CmdList, CmdView, CmdDelete, CmdCreate, CmdAvatar, CmdUpdate}

\* the persona id a quick-switch text names, <<>> when the handler ignores it
QuickSwitchTarget(e) ==
    LET text == Strip(e.text)
        parts == Split(text)
    IN  IF ~e.wake \/ text = <<>> \/ parts = <<>> THEN <<>>
        ELSE IF Lower(parts[1]) \notin Aliases THEN <<>>
        ELSE IF Len(parts) # 2 THEN <<>>
        ELSE IF Lower(Strip(parts[2])) \in KnownSubcommands THEN <<>>
        ELSE Strip(parts[2])

\* auto_switch_announce: "已切换人格为 <persona_id>"
AnnounceFor(pid) == IF auto_switch_announce THEN <<Reply("announce", pid)>> ELSE <<>>

\* PersonaPlus.on_quick_switch_command
OnQuickSwitch(e, out) ==
    /\ pc = "ready"
    /\ LET pid == QuickSwitchTarget(e)
           h == Handling("quick_switch", e)
       IN  IF pid = <<>> THEN Handled(h)
           ELSE IF ~check_permission(e.sender, CmdSwitch, admin_commands)
           THEN Handled([h EXCEPT !.persona_id = pid, !.replies = <<Denied>>])
           ELSE IF pid \notin personas
           THEN Handled([h EXCEPT !.persona_id = pid, !.calls = <<"get_persona">>,
                                  !.replies = <<Reply("not_found", pid)>>])
           ELSE LET r == PersonaPlus_switch_persona(e, pid, AnnounceFor(pid), out)
                IN  ApplySwitch("quick_switch", e, pid,
                                [r EXCEPT !.calls = <<"get_persona">> \o @], TRUE)

\* the loop of on_message over keyword_mappings, left at the first match
RECURSIVE FirstMatching(_, _)
FirstMatching(mappings, text) ==
    IF mappings = <<>> THEN NoMatch
    ELSE IF matches(Head(mappings), text) THEN Match(Head(mappings))
    ELSE FirstMatching(Tail(mappings), text)

\* the announce text of a keyword switch
KeywordAnnounce(mapping) ==
    IF mapping.reply_template # <<>>
    THEN <<Reply("template", mapping.persona_id)>>
    ELSE AnnounceFor(mapping.persona_id)

\* PersonaPlus.on_message: the keyword listener
OnMessage(e, out) ==
    /\ pc = "ready"
    /\ LET h == Handling("on_message", e)
           m == FirstMatching(keyword_mappings, e.text)
       IN  IF e.text = <<>> \/ ~keyword_switch_enabled \/ keyword_mappings = <<>>
           THEN Handled(h)
           ELSE IF ~m.found THEN Handled(h)
           ELSE ApplySwitch("on_message", e, m.mapping.persona_id,
                            [PersonaPlus_switch_persona(e, m.mapping.persona_id,
                                                        KeywordAnnounce(m.mapping), out)
                                 EXCEPT !.matched = m],
                            FALSE)

\* a direct call of switch_persona (core/switching.py) with the plugin's settings
CoreSwitch(e, pid, out) ==
    /\ pc = "ready"
    /\ ApplySwitch("core_switch", e, pid,
                   switch_persona(e, pid, auto_switch_scope, clear_context_on_switch,
                                  AnnounceFor(pid), out),
                   FALSE)

\* a direct call of match_keyword (core/keyword_switch.py) on the loaded mappings
MatchKeyword(text) ==
    /\ pc = "ready"
    /\ Handled([Idle EXCEPT !.op = "match_keyword", !.text = text,
                             !.matched = match_keyword(keyword_mappings, text)])

\* a reset that forgets nothing
reset_persona_cache_none(cache, pid) == cache

\* QQProfileSync.reset_persona_cache
reset_persona_cache(cache, pid) ==
    [b \in BotKeys |-> IF cache[b] = pid THEN <<>> ELSE cache[b]]

\* the gate of a command handler: the reply of a denied call
Gate(op, cmd, e, pid) ==
    /\ ~check_permission(e.sender, cmd, admin_commands)
    /\ Handled([Handling(op, e) EXCEPT !.persona_id = pid, !.replies = <<Denied>>])

Allowed(cmd, e) == check_permission(e.sender, cmd, admin_commands)

\* PersonaPlus.cmd_help
CmdHelpHandler(e) ==
    /\ pc = "ready"
    /\ \/ Gate("help", CmdHelp, e, <<>>)
       \/ /\ Allowed(CmdHelp, e)
          /\ Handled([Handling("help", e) EXCEPT !.replies = <<Reply("help", <<>>)>>])

\* PersonaPlus.cmd_list
CmdListHandler(e) ==
    /\ pc = "ready"
    /\ \/ Gate("list", CmdList, e, <<>>)
       \/ /\ Allowed(CmdList, e)
          /\ Handled([Handling("list", e) EXCEPT
                         !.calls = <<"get_all_personas">>,
                         !.replies = <<Reply(IF personas = {} THEN "no_personas" ELSE "list",
                                             <<>>)>>])

\* PersonaPlus.cmd_view
CmdViewHandler(e, pid) ==
    /\ pc = "ready"
    /\ \/ Gate("view", CmdView, e, pid)
       \/ /\ Allowed(CmdView, e)
          /\ Handled([Handling("view", e) EXCEPT
                         !.persona_id = pid,
                         !.calls = <<"get_persona">>,
                         !.replies = <<Reply(IF pid \in personas THEN "view" ELSE "not_found",
                                             pid)>>])

\* a cmd_delete that removes the avatar before it asks the host
CmdDeleteHandlerAvatarFirst(e, pid) ==
    /\ pc = "ready"
    /\ Allowed(CmdDelete, e)
    /\ personas' = personas \ {pid}
    /\ prompts' = [prompts EXCEPT ![pid] = <<>>]
    /\ avatars' = avatars \ {pid}
    /\ last_synced' = reset_persona_cache(last_synced, pid)
    /\ last' = [Handling("delete", e) EXCEPT
                   !.persona_id = pid,
                   !.calls = <<"delete_avatar", "delete_persona">>,
                   !.replies = <<Reply(IF pid \in personas THEN "deleted" ELSE "not_found",
                                       pid)>>]
    /\ UNCHANGED <<flightVars, configVars, settingsVars, platform, configs,
                   conversations, curr_cid, waits, persona_files>>

\* PersonaPlus.cmd_delete
CmdDeleteHandler(e, pid) ==
    /\ pc = "ready"
    /\ \/ Gate("delete", CmdDelete, e, pid)
       \/ /\ Allowed(CmdDelete, e)
          /\ pid \notin personas
          /\ Handled([Handling("delete", e) EXCEPT
                         !.persona_id = pid,
                         !.calls = <<"delete_persona">>,
                         !.replies = <<Reply("not_found", pid)>>])
       \/ /\ Allowed(CmdDelete, e)
          /\ pid \in personas
          /\ personas' = personas \ {pid}
          /\ prompts' = [prompts EXCEPT ![pid] = <<>>]
          /\ avatars' = avatars \ {pid}
          /\ last_synced' = reset_persona_cache(last_synced, pid)
          /\ last' = [Handling("delete", e) EXCEPT
                         !.persona_id = pid,
                         !.calls = <<"delete_persona", "delete_avatar">>,
                         !.replies = <<Reply("deleted", pid)>>]
          /\ UNCHANGED <<flightVars, configVars, settingsVars, platform, configs,
                         conversations, curr_cid, waits, persona_files>>

\* PersonaPlus._schedule_persona_wait: the flow it arms for the event
ArmWait(op, e, pid, prompt) ==
    /\ Cardinality(waits) < MaxWaits
    /\ \A w \in waits : w.origin # e.origin
    /\ waits' = waits \cup {[origin |-> e.origin, sender |-> e.sender,
                             persona_id |-> pid, mode |-> op, left |-> WaitTicks]}
    /\ last' = [Handling(op, e) EXCEPT
                   !.persona_id = pid,
                   !.calls = <<"get_persona", "session_waiter">>,
                   !.replies = <<Reply(prompt, <<>>)>>,
                   !.mode = op,
                   !.stopped = TRUE]
    /\ UNCHANGED <<flightVars, configVars, settingsVars, syncVars, hostVars>>

\* PersonaPlus.cmd_create
CmdCreateHandler(e, pid) ==
    /\ pc = "ready"
    /\ \/ Gate("create", CmdCreate, e, pid)
       \/ /\ Allowed(CmdCreate, e)
          /\ pid \in personas
          /\ Handled([Handling("create", e) EXCEPT
                         !.persona_id = pid,
                         !.calls = <<"get_persona">>,
                         !.replies = <<Reply("exists", pid)>>])
       \/ /\ Allowed(CmdCreate, e)
          /\ pid \notin personas
          /\ ArmWait("create", e, pid, "send_content")

\* PersonaPlus.cmd_avatar and PersonaPlus.cmd_update
CmdWaitHandler(op, cmd, e, pid, prompt) ==
    /\ pc = "ready"
    /\ \/ Gate(op, cmd, e, pid)
       \/ /\ Allowed(cmd, e)
          /\ pid \notin personas
          /\ Handled([Handling(op, e) EXCEPT
                         !.persona_id = pid,
                         !.calls = <<"get_persona">>,
                         !.replies = <<Reply("not_found", pid)>>])
       \/ /\ Allowed(cmd, e)
          /\ pid \in personas
          /\ ArmWait(op, e, pid, prompt)

CmdAvatarHandler(e, pid) == CmdWaitHandler("avatar", CmdAvatar, e, pid, "send_avatar")

CmdUpdateHandler(e, pid) == CmdWaitHandler("update", CmdUpdate, e, pid, "send_content")

\* the host appends a chat turn to the current conversation of an origin
HostChat(o) ==
    /\ pc = "ready"
    /\ curr_cid[o] # NoCid
    /\ Len(conversations[curr_cid[o]].history) < MaxHistory
    /\ conversations' = [conversations EXCEPT ![curr_cid[o]].history = Append(@, "m")]
    /\ last' = [Idle EXCEPT !.op = "host_chat", !.origin = o]
    /\ UNCHANGED <<flightVars, configVars, settingsVars, syncVars, personas, configs,
                   curr_cid, waits, prompts, persona_files>>

-----------------------------------------------------------------------------
(* Wait flows: the waiter and run_wait of PersonaPlus._schedule_persona_wait *)

\* a follow-up event: its text, its components in the order the plugin
\* iterates them (a quoted reply's chain in place), the state of its file
\* and whether its image has a url
FollowUp(o, text, comps, file, url) ==
    [origin |-> o, sender |-> "user", text |-> text, comps |-> comps,
     file |-> file, url |-> url]

\* a reply of a flow: the action (the flow's mode) and the reason it names
FlowReply(kind, f, reason) ==
    [Reply(kind, f.persona_id) EXCEPT !.action = f.mode, !.reason = reason]

\* PersonaPlus._has_component_of_types
has_component_of_types(ne, types) ==
    \E i \in 1..Len(ne.comps) : ne.comps[i].kind \in types

\* the component types a mode accepts
\* a waiter that takes an image for a persona file
AcceptedEither(mode) == {"image", "file"}

Accepted(mode) == IF mode = "avatar" THEN {"image", "file"} ELSE {"file"}

\* QQProfileSync.extract_image_component: the first image or file, "none"
\* when there is neither
extract_image_component(ne) ==
    LET at == {i \in 1..Len(ne.comps) : ne.comps[i].kind \in {"image", "file"}}
    IN  IF at = {} THEN "none"
        ELSE ne.comps[CHOOSE i \in at : \A j \in at : i <= j].kind

\* what the work of a flow on a follow-up event comes to
Done(calls) == [err |-> "", reason |-> "", calls |-> calls, saved |-> FALSE, content |-> <<>>]
Raised(err, reason, calls) ==
    [err |-> err, reason |-> reason, calls |-> calls, saved |-> FALSE, content |-> <<>>]

\* QQProfileSync.save_avatar_from_event; host tells how the download ends
save_avatar_from_event(ne, host) ==
    LET c == extract_image_component(ne)
    IN  IF c = "none" THEN Raised("ValueError", "no_image", <<>>)
        ELSE IF c = "image" /\ ne.url
        THEN IF host = "ok" THEN [Done(<<"download_and_save_avatar">>) EXCEPT !.saved = TRUE]
             ELSE Raised("Exception", "download_failed", <<"download_and_save_avatar">>)
        ELSE IF c = "file"
        THEN IF ne.file = "unfetchable" THEN Raised("ValueError", "fetch_failed", <<"get_file">>)
             ELSE IF ne.file # "image"
             THEN Raised("ValueError", "not_an_image_file", <<"get_file">>)
             ELSE [Done(<<"get_file", "write_avatar">>) EXCEPT !.saved = TRUE]
        ELSE Raised("ValueError", "unsupported", <<>>)

\* a download that decodes the bytes before it saves them
download_and_parse_persona_file_decode_first(ne) ==
    IF extract_image_component(ne) # "file" THEN Raised("ValueError", "no_text_file", <<>>)
    ELSE IF ne.file = "unfetchable" THEN Raised("ValueError", "fetch_failed", <<"get_file">>)
    ELSE IF ne.file = "empty" THEN Raised("ValueError", "empty_file", <<"get_file">>)
    ELSE IF ne.file = "text"
    THEN [Done(<<"get_file", "write_persona_file">>) EXCEPT
             !.saved = TRUE, !.content = <<"f">>]
    ELSE Raised("ValueError", "encoding", <<"get_file">>)

\* PersonaPlus._download_and_parse_persona_file
download_and_parse_persona_file(ne) ==
    IF extract_image_component(ne) # "file" THEN Raised("ValueError", "no_text_file", <<>>)
    ELSE IF ne.file = "unfetchable" THEN Raised("ValueError", "fetch_failed", <<"get_file">>)
    ELSE IF ne.file = "empty" THEN Raised("ValueError", "empty_file", <<"get_file">>)
    ELSE IF ne.file = "text"
    THEN [Done(<<"get_file", "write_persona_file">>) EXCEPT
             !.saved = TRUE, !.content = <<"f">>]
    ELSE [Raised("ValueError", "encoding", <<"get_file", "write_persona_file">>) EXCEPT
             !.saved = TRUE]

\* PersonaPlus._extract_persona_from_event
extract_persona_from_event(ne) ==
    IF has_component_of_types(ne, {"file"}) THEN download_and_parse_persona_file(ne)
    ELSE IF Strip(ne.text) # <<>> THEN [Done(<<>>) EXCEPT !.content = Strip(ne.text)]
    ELSE Raised("ValueError", "no_content", <<>>)

\* the stores a flow can change, as they are before it runs
Stores ==
    [personas |-> personas, prompts |-> prompts, persona_files |-> persona_files,
     avatars |-> avatars, last_synced |-> last_synced]

\* PersonaPlus._create_persona: the lookup, then the host's create_persona,
\* which is called whether the lookup raised or the already-exists error was
\* raised and caught; host tells how create_persona ends
PersonaPlus_create_persona(st, pid, content, host) ==
    LET calls == <<"get_persona", "create_persona">>
    IN  IF host = "ok"
        THEN [work |-> Done(calls),
              stores |-> [st EXCEPT !.personas = @ \cup {pid}, !.prompts[pid] = content]]
        ELSE [work |-> Raised(IF host = "value_error" THEN "ValueError" ELSE "Exception",
                              "host_create_failed", calls),
              stores |-> st]

\* persona_mgr.update_persona: raises ValueError for a persona it does not
\* hold; host tells how the update of a persona it holds ends
update_persona(st, pid, content, host) ==
    LET calls == <<"update_persona">>
    IN  IF pid \notin st.personas
        THEN [work |-> Raised("ValueError", "not_found", calls), stores |-> st]
        ELSE IF host = "ok"
        THEN [work |-> Done(calls), stores |-> [st EXCEPT !.prompts[pid] = content]]
        ELSE [work |-> Raised("Exception", "host_update_failed", calls), stores |-> st]

\* the try block of the waiter for a genuine follow-up event
WaiterWork(f, ne, host) ==
    LET pid == f.persona_id
        av == save_avatar_from_event(ne, host)
        ex == extract_persona_from_event(ne)
        filed == [Stores EXCEPT !.persona_files = IF ex.saved THEN @ \cup {pid} ELSE @]
        made == IF f.mode = "create"
                THEN PersonaPlus_create_persona(filed, pid, ex.content, host)
                ELSE update_persona(filed, pid, ex.content, host)
    IN  IF f.mode = "avatar"
        THEN IF av.err # "" THEN [work |-> av, stores |-> Stores]
             ELSE [work |-> [av EXCEPT !.calls = @ \o <<"reset_persona_cache">>],
                   stores |-> [Stores EXCEPT
                                  !.avatars = @ \cup {pid},
                                  !.last_synced = reset_persona_cache(@, pid)]]
        ELSE IF ex.err # "" THEN [work |-> ex, stores |-> filed]
        ELSE [work |-> [made.work EXCEPT !.calls = ex.calls \o @], stores |-> made.stores]

\* the ways the host call of a follow-up can end
HostChoices(f, ne) ==
    IF f.mode = "avatar"
    THEN IF extract_image_component(ne) = "image" /\ ne.url THEN {"ok", "error"} ELSE {"ok"}
    ELSE IF extract_persona_from_event(ne).err # "" THEN {"ok"}
    ELSE IF f.mode = "create"
    THEN IF f.persona_id \in personas THEN {"ok", "value_error"} ELSE {"ok", "error"}
    ELSE IF f.persona_id \in personas THEN {"ok", "error"} ELSE {"ok"}

\* a waiter that releases the wait primitive only after a success
WaiterCallsStopOnSuccess(work) ==
    work.calls \o (IF work.err = "" THEN <<"send", "controller.stop">> ELSE <<"send">>)

\* the calls of the waiter for a genuine follow-up: the work, the reply of
\* the except or else branch, and controller.stop() in the finally block
WaiterCalls(work) == work.calls \o <<"send", "controller.stop">>

\* a waiter that swallows a failure without telling the user
WaiterRepliesSilentFailure(f, work) ==
    IF work.err = "" THEN <<FlowReply("succeeded", f, "")>> ELSE <<>>

\* the reply of the waiter for a genuine follow-up
WaiterReplies(f, work) ==
    <<IF work.err = "" THEN FlowReply("succeeded", f, "")
      ELSE FlowReply("failed", f, work.reason)>>

\* a run_wait with one timeout message for every mode
TimeoutReplyGeneric(f) == FlowReply("timeout", f, "content")

\* the reply of run_wait on TimeoutError
TimeoutReply(f) == FlowReply("timeout", f, IF f.mode = "avatar" THEN "avatar" ELSE "content")

\* the record of a flow step
FlowStep(op, f) ==
    [Idle EXCEPT !.op = op, !.origin = f.origin, !.sender = f.sender,
                 !.persona_id = f.persona_id, !.mode = f.mode]

\* a keep that leaves the deadline where it was
KeepRemaining(f) == f

\* controller.keep(timeout=self.manage_wait_timeout, reset_timeout=True):
\* the flow waits the full timeout again
Keep(f) == [f EXCEPT !.left = WaitTicks]

\* the waiter on one follow-up event of the flow's origin that arrives
\* before the deadline
OnFollowUp(f, ne, host) ==
    /\ f \in waits
    /\ f.left > 0
    /\ ne.origin = f.origin
    /\ LET h == [FlowStep("follow_up", f) EXCEPT
                    !.text = ne.text, !.comps = ne.comps, !.file = ne.file]
           r == WaiterWork(f, ne, host)
       IN  IF Strip(ne.text) = <<>> /\ ~has_component_of_types(ne, Accepted(f.mode))
           THEN /\ waits' = (waits \ {f}) \cup {Keep(f)}
                /\ last' = [h EXCEPT !.outcome = "noise", !.calls = <<"controller.keep">>]
                /\ UNCHANGED <<flightVars, configVars, settingsVars, syncVars, hostVars>>
           ELSE /\ waits' = waits \ {f}
                /\ personas' = r.stores.personas
                /\ prompts' = r.stores.prompts
                /\ persona_files' = r.stores.persona_files
                /\ avatars' = r.stores.avatars
                /\ last_synced' = r.stores.last_synced
                /\ last' = [h EXCEPT
                               !.outcome = IF r.work.err = "" THEN "succeeded" ELSE "failed",
                               !.raised = r.work.err # "",
                               !.calls = WaiterCalls(r.work),
                               !.replies = WaiterReplies(f, r.work)]
                /\ UNCHANGED <<flightVars, configVars, settingsVars, platform, configs,
                               conversations, curr_cid>>

\* the clock of a flow moves one tick towards its deadline
Tick(f) ==
    /\ f \in waits
    /\ f.left > 0
    /\ waits' = (waits \ {f}) \cup {[f EXCEPT !.left = @ - 1]}
    /\ last' = FlowStep("tick", f)
    /\ UNCHANGED <<flightVars, configVars, settingsVars, syncVars, hostVars>>

\* run_wait on TimeoutError: the deadline passed without a genuine follow-up
Expire(f) ==
    /\ f \in waits
    /\ f.left = 0
    /\ waits' = waits \ {f}
    /\ last' = [FlowStep("timeout", f) EXCEPT
                   !.outcome = "timeout",
                   !.calls = <<"send">>,
                   !.replies = <<TimeoutReply(f)>>]
    /\ UNCHANGED <<flightVars, configVars, settingsVars, syncVars, hostVars>>

\* PersonaPlus.terminate: it logs and returns
Terminate ==
    /\ pc = "ready"
    /\ pc' = "terminated"
    /\ last' = [Idle EXCEPT !.op = "terminate"]
    /\ UNCHANGED <<flightVars, config, parse_call, settingsVars, syncVars, hostVars, waits>>

-----------------------------------------------------------------------------
(* The running plugin: specifications *)

\* "a:a", "b:b", "c:c" on three lines: one keyword per persona id
SwitchRaw == <<"a", Colon, "a", NL, "b", Colon, "b", NL, "c", Colon, "c">>

Scopes == {"conversation", "session", "global", "other"}

\* "pp a", "pp b", "pp c" (no persona c exists) and a text without keyword
SwitchTexts == {<<"p", "p", Blank, "a">>, <<"p", "p", Blank, "b">>,
                <<"p", "p", Blank, "c">>, <<"x">>}

Event(o, sender, wake, text, is_qq) ==
    [origin |-> o, sender |-> sender, wake |-> wake, text |-> text,
     is_qq |-> is_qq, group |-> FALSE, bot_key |-> "qq:bot"]

AllOk == [nick |-> "ok", card |-> "ok", avatar |-> "ok"]

\* how the platform calls may end for an event: only an aiocqhttp event
\* reaches the platform
OutcomesFor(e, outcomes) == IF e.is_qq THEN outcomes ELSE {AllOk}

NickOutcomes == {[AllOk EXCEPT !.nick = n] : n \in CallOutcomes}

\* wake commands "pp <id>" from both origins, one that is no wake command
\* and one that names no alias
QuickEvents ==
    {Event(o, "user", TRUE, t, q) : o \in Origins, t \in SwitchTexts \ {<<"x">>}, q \in BOOLEAN}
    \cup {Event("o1", "user", FALSE, <<"p", "p", Blank, "a">>, FALSE),
          Event("o1", "user", TRUE, <<"x">>, FALSE)}

\* plain messages from both origins
MessageEvents ==
    {Event(o, "user", FALSE, t, q) : o \in Origins, t \in SwitchTexts \ {<<"x">>}, q \in BOOLEAN}
    \cup {Event("o1", "user", FALSE, <<"x">>, FALSE)}

\* the events handed to a direct call of switch_persona
CallEvents == {Event(o, "user", FALSE, <<>>, q) : o \in Origins, q \in BOOLEAN}

\* o1 has a current conversation and o2 has none; one of them has a config
\* the switch can write, the other an empty config or none at all
StartConfigs ==
    {[c \in ConfIds |-> CASE c = "o1" -> PlainConf [] c = "o2" -> NoConf [] OTHER -> PlainConf],
     [c \in ConfIds |-> CASE c = "o1" -> EmptyConf [] c = "o2" -> PlainConf [] OTHER -> PlainConf]}

\* the state of a constructed plugin on a host with personas a and b
InitSwitch ==
    /\ pc = "ready"
    /\ config \in {[ConfigWith(SwitchRaw) EXCEPT
                       !.auto_switch_scope = sc,
                       !.clear_context_on_switch = cl,
                       !.enable_auto_switch_announce = an,
                       !.admin_commands = {}] :
                   sc \in Scopes, cl \in BOOLEAN, an \in BOOLEAN}
    /\ parse_call = NoParseCall
    /\ SettingsAre(LoadSettings(config))
    /\ personas = {PA, PB}
    /\ configs \in StartConfigs
    /\ conversations = StartConversations
    /\ curr_cid = [o \in Origins |-> IF o = "o1" THEN "c1" ELSE NoCid]
    /\ last_synced = [b \in BotKeys |-> <<>>]
    /\ avatars = {}
    /\ platform = NoPlatformProfile
    /\ waits = {}
    /\ syncs = NoSyncs
    /\ inbound = NoInbound
    /\ prompts = StartPrompts(personas)
    /\ persona_files = {}
    /\ last = Idle

Next ==
    \/ \E e \in QuickEvents : \E out \in OutcomesFor(e, NickOutcomes) : OnQuickSwitch(e, out)
    \/ \E e \in MessageEvents : \E out \in OutcomesFor(e, NickOutcomes) : OnMessage(e, out)
    \/ \E e \in CallEvents, pid \in PersonaIds \cup {<<"c">>} :
          \E out \in OutcomesFor(e, NickOutcomes) : CoreSwitch(e, pid, out)
    \/ \E o \in Origins : HostChat(o)

Spec == InitSwitch /\ [][Next]_vars

-----------------------------------------------------------------------------
(* One message passed to both listeners of the plugin *)

\* the two handlers registered for every message type
Listeners == {"quick_switch", "on_message"}

\* "pp a", "pp b", "pp c" and "x" from both origins, sent to the bot
InboundEvents ==
    {Event(o, "user", TRUE, t, FALSE) : o \in Origins, t \in SwitchTexts}

\* the host takes up a message once the one before it has left the listeners
Arrive(e) ==
    /\ pc = "ready"
    /\ inbound.todo = {}
    /\ inbound' = [present |-> TRUE, todo |-> Listeners, switches |-> 0, event |-> e]
    /\ last' = Handling("inbound", e)
    /\ UNCHANGED <<configVars, settingsVars, syncVars, hostVars, waits, syncs>>

\* the host passes the message to on_quick_switch_command
PassQuickSwitch ==
    /\ inbound.present
    /\ "quick_switch" \in inbound.todo
    /\ OnQuickSwitch(inbound.event, AllOk)

\* the host passes the message to on_message
PassOnMessage ==
    /\ inbound.present
    /\ "on_message" \in inbound.todo
    /\ OnMessage(inbound.event, AllOk)

NextInbound ==
    \/ \E e \in InboundEvents : Arrive(e)
    \/ PassQuickSwitch
    \/ PassOnMessage

SpecInbound == InitSwitch /\ [][NextInbound]_vars

-----------------------------------------------------------------------------
(* The switch with every platform call of the profile sync in play *)

NicknameSyncModes == {"profile", "group_card", "hybrid"}

\* aiocqhttp events of a private chat and of a group chat
SyncEvents ==
    {[Event("o1", "user", TRUE, <<"p", "p", Blank, "a">>, TRUE) EXCEPT !.group = g] :
         g \in BOOLEAN}

\* nickname and avatar sync are on and persona a has an avatar file
InitSync ==
    /\ pc = "ready"
    /\ config \in {[ConfigWith(SwitchRaw) EXCEPT
                       !.auto_switch_scope = sc,
                       !.clear_context_on_switch = TRUE,
                       !.enable_auto_switch_announce = TRUE,
                       !.sync_avatar_on_switch = TRUE,
                       !.nickname_sync_mode = mode,
                       !.admin_commands = {}] :
                   sc \in {"session", "global"}, mode \in NicknameSyncModes}
    /\ parse_call = NoParseCall
    /\ SettingsAre(LoadSettings(config))
    /\ personas = {PA, PB}
    /\ configs = [c \in ConfIds |-> PlainConf]
    /\ conversations = StartConversations
    /\ curr_cid = [o \in Origins |-> IF o = "o1" THEN "c1" ELSE NoCid]
    /\ last_synced = [b \in BotKeys |-> <<>>]
    /\ avatars = {PA}
    /\ platform = NoPlatformProfile
    /\ waits = {}
    /\ syncs = NoSyncs
    /\ inbound = NoInbound
    /\ prompts = StartPrompts(personas)
    /\ persona_files = {}
    /\ last = Idle

NextSync ==
    \/ \E e \in SyncEvents, out \in SyncOutcomes : OnQuickSwitch(e, out)
    \/ \E e \in SyncEvents, out \in SyncOutcomes : OnMessage(e, out)
    \/ \E e \in SyncEvents, out \in SyncOutcomes : CoreSwitch(e, PA, out)
    \/ \E o \in Origins : HostChat(o)
    \/ Terminate

SpecSync == InitSync /\ [][NextSync]_vars

-----------------------------------------------------------------------------
(* The wait flows of create, update and avatar *)

\* the commands come from both origins
WaitEvents == {Event(o, "user", TRUE, <<>>, TRUE) : o \in Origins}

\* follow-ups of each origin: an empty event, a blank text with an image, a
\* text, a decodable text file in a quoted reply, a file that does not
\* decode, an image file, an empty file, and a text with an image followed
\* by a decodable text file
FollowUps ==
    UNION {{FollowUp(o, <<>>, <<>>, "none", FALSE),
            FollowUp(o, <<Blank>>, <<[kind |-> "image"]>>, "none", TRUE),
            FollowUp(o, <<"x", Blank>>, <<>>, "none", FALSE),
            FollowUp(o, <<>>, <<[kind |-> "reply"], [kind |-> "file"]>>, "text", FALSE),
            FollowUp(o, <<>>, <<[kind |-> "file"]>>, "undecodable", FALSE),
            FollowUp(o, <<>>, <<[kind |-> "file"]>>, "image", FALSE),
            FollowUp(o, <<>>, <<[kind |-> "file"]>>, "empty", FALSE),
            FollowUp(o, <<"x">>, <<[kind |-> "image"], [kind |-> "file"]>>, "text", TRUE)} :
          o \in Origins}

\* a constructed plugin with no admin command; persona a is the persona the
\* bot was synced to last
InitWait ==
    /\ pc = "ready"
    /\ config = [ConfigWith(SwitchRaw) EXCEPT !.admin_commands = {}]
    /\ parse_call = NoParseCall
    /\ SettingsAre(LoadSettings(config))
    /\ personas = {PA, PB}
    /\ configs = [c \in ConfIds |-> PlainConf]
    /\ conversations = StartConversations
    /\ curr_cid = [o \in Origins |-> IF o = "o1" THEN "c1" ELSE NoCid]
    /\ last_synced = [b \in BotKeys |-> PA]
    /\ avatars = {}
    /\ platform = NoPlatformProfile
    /\ waits = {}
    /\ syncs = NoSyncs
    /\ inbound = NoInbound
    /\ prompts = StartPrompts(personas)
    /\ persona_files = {}
    /\ last = Idle

NextWait ==
    \/ \E e \in WaitEvents : CmdCreateHandler(e, <<"c">>)
    \/ \E e \in WaitEvents : CmdUpdateHandler(e, PA)
    \/ \E e \in WaitEvents : CmdAvatarHandler(e, PA)
    \/ \E f \in waits, ne \in FollowUps : \E host \in HostChoices(f, ne) : OnFollowUp(f, ne, host)
    \/ \E f \in waits : Tick(f)
    \/ \E f \in waits : Expire(f)
    \/ Terminate

SpecWait == InitWait /\ [][NextWait]_vars

-----------------------------------------------------------------------------
(* Switches of two conversations of one bot, interleaved at the platform
   calls maybe_sync_profile awaits *)

\* the nickname call maybe_sync_profile makes for an event, "none" when the
\* settings and the chat kind leave none
NicknameCall(e) ==
    IF ~qq.sync_nickname THEN "none"
    ELSE CASE qq.nickname_sync_mode = "profile" -> "set_qq_profile"
           [] qq.nickname_sync_mode = "group_card" ->
                  IF e.group THEN "set_group_card" ELSE "none"
           [] qq.nickname_sync_mode = "hybrid" ->
                  IF e.group THEN "set_group_card" ELSE "set_qq_profile"
           [] OTHER -> "none"

\* quick switches to a and to b from two private aiocqhttp chats of the bot
RaceEvents ==
    {Event(o, "user", TRUE, <<"p", "p", Blank, id>>, TRUE) :
         o \in Origins, id \in {"a", "b"}}

\* on_quick_switch_command for a permitted switch to a persona the host
\* holds, up to the first platform call maybe_sync_profile awaits; when the
\* sync makes no call the handler runs to its end
SwitchBegin(e) ==
    /\ pc = "ready"
    /\ syncs[e.origin].at = "none"
    /\ LET pid == QuickSwitchTarget(e)
           umo == e.origin
           history_reset == IF clear_context_on_switch THEN <<>> ELSE NoHistoryChange
           conf == set_default_persona(configs, auto_switch_scope, umo, pid)
           conv == update_current_conversation(conversations, curr_cid, umo, pid,
                                               history_reset)
           nick_call == NicknameCall(e)
           avatar_call == qq.sync_avatar /\ pid \in avatars
           skipped == \/ ~e.is_qq
                      \/ ~qq.enabled
                      \/ ~(qq.sync_nickname \/ qq.sync_avatar)
                      \/ last_synced[e.bot_key] = pid
           at == IF skipped THEN "none"
                 ELSE IF nick_call # "none" THEN nick_call
                 ELSE IF avatar_call THEN "set_qq_avatar"
                 ELSE "none"
           announce == AnnounceFor(pid)
       IN  /\ pid \in personas
           /\ check_permission(e.sender, CmdSwitch, admin_commands)
           /\ configs' = conf.configs
           /\ conversations' = conv.conversations
           /\ syncs' = [syncs EXCEPT ![umo] =
                            [NotSyncing EXCEPT !.at = at, !.bot_key = e.bot_key,
                                               !.persona_id = pid,
                                               !.announce = announce]]
           /\ last' = [Handling("quick_switch", e) EXCEPT
                          !.persona_id = pid,
                          !.calls = <<"get_persona", "get_persona">> \o conf.calls
                                    \o conv.calls \o <<"maybe_sync_profile">>
                                    \o (IF at # "none" THEN <<at>>
                                        ELSE IF announce # <<>> THEN <<"plain_result">>
                                        ELSE <<>>),
                          !.replies = IF at = "none" THEN announce ELSE <<>>,
                          !.switched = TRUE,
                          !.stopped = at = "none" /\ announce # <<>>]
           /\ UNCHANGED <<configVars, settingsVars, syncVars, personas, curr_cid,
                          prompts, persona_files, waits, inbound>>

\* the platform call a suspended switch awaits returns: the call takes
\* effect when it succeeded, and the switch runs on to its next platform
\* call or, past the cache write, to the end of its handler
SyncResume(o, outcome) ==
    /\ pc = "ready"
    /\ syncs[o].at # "none"
    /\ LET s == syncs[o]
           pid == s.persona_id
           ok == outcome = "ok"
           nick_step == s.at \in {"set_qq_profile", "set_group_card"}
           nickname_applied == IF nick_step THEN ok ELSE s.nickname_applied
           avatar_synced == s.at = "set_qq_avatar" /\ ok
           next_avatar == nick_step /\ qq.sync_avatar /\ pid \in avatars
       IN  /\ platform' =
                  IF ~ok THEN platform
                  ELSE CASE s.at = "set_qq_profile" ->
                                [platform EXCEPT !.nickname = format_nickname(pid)]
                         [] s.at = "set_group_card" ->
                                [platform EXCEPT !.card = format_nickname(pid)]
                         [] OTHER -> [platform EXCEPT !.avatar = pid]
           /\ last_synced' =
                  IF ~next_avatar /\ (nickname_applied \/ avatar_synced)
                  THEN [last_synced EXCEPT ![s.bot_key] = pid]
                  ELSE last_synced
           /\ syncs' = [syncs EXCEPT ![o] =
                            [s EXCEPT !.at = IF next_avatar THEN "set_qq_avatar" ELSE "none",
                                      !.nickname_applied = nickname_applied,
                                      !.avatar_synced = avatar_synced]]
           /\ last' = [Idle EXCEPT
                          !.op = "sync_resume", !.origin = o, !.persona_id = pid,
                          !.calls = IF next_avatar THEN <<"set_qq_avatar">>
                                    ELSE IF s.announce # <<>> THEN <<"plain_result">>
                                    ELSE <<>>,
                          !.replies = IF next_avatar THEN <<>> ELSE s.announce,
                          !.failed = IF ok THEN {} ELSE {s.at},
                          !.switched = ~next_avatar,
                          !.stopped = ~next_avatar /\ s.announce # <<>>]
           /\ UNCHANGED <<configVars, settingsVars, avatars, hostVars, waits, inbound>>

NextRace ==
    \/ \E e \in RaceEvents : SwitchBegin(e)
    \/ \E o \in Origins, outcome \in CallOutcomes : SyncResume(o, outcome)

SpecRace == InitSync /\ [][NextRace]_vars

-----------------------------------------------------------------------------
\* the timer of every flow and the delivery of its timeout make progress
\* quick switches to a and to b from a private aiocqhttp chat
AvatarSwitchEvents ==
    {Event("o1", "user", TRUE, <<"p", "p", Blank, id>>, TRUE) : id \in {"a", "b"}}

\* avatar flows for persona a and its deletion between profile-syncing
\* switches
NextAvatar ==
    \/ \E e \in AvatarSwitchEvents, out \in SyncOutcomes : OnQuickSwitch(e, out)
    \/ \E e \in WaitEvents : CmdAvatarHandler(e, PA)
    \/ \E e \in WaitEvents : CmdDeleteHandler(e, PA)
    \/ \E f \in waits, ne \in FollowUps : \E host \in HostChoices(f, ne) : OnFollowUp(f, ne, host)
    \/ \E f \in waits : Tick(f)
    \/ \E f \in waits : Expire(f)

SpecAvatar == InitSync /\ [][NextAvatar]_vars

SpecWaitLive ==
    /\ SpecWait
    /\ \A o \in Origins :
          /\ WF_vars(\E f \in waits : f.origin = o /\ Tick(f))
          /\ WF_vars(\E f \in waits : f.origin = o /\ Expire(f))

-----------------------------------------------------------------------------
(* The keyword matcher on its own *)

MatchChars == {"a", "A", "b"}

\* keywords of the first and of the second configuration line
MatchKeywords == {<<"a">>, <<"A">>, <<"a", "b">>, <<"B">>}

\* no line, one line "<k>:a", or two lines "<k1>:a" and "<k2>:b"
MatchRaws ==
    {<<>>}
    \cup {k \o <<Colon, "a">> : k \in MatchKeywords}
    \cup {k1 \o <<Colon, "a", NL>> \o k2 \o <<Colon, "b">> :
              k1 \in MatchKeywords, k2 \in MatchKeywords}

MatchTexts == TextsUpTo(MatchChars, MaxTextLen)

InitMatch ==
    /\ pc = "ready"
    /\ config \in {[ConfigWith(raw) EXCEPT !.enable_keyword_switching = en] :
                   raw \in MatchRaws, en \in BOOLEAN}
    /\ parse_call = NoParseCall
    /\ SettingsAre(LoadSettings(config))
    /\ personas = {PA, PB}
    /\ configs = [c \in ConfIds |-> PlainConf]
    /\ conversations = StartConversations
    /\ curr_cid = [o \in Origins |-> IF o = "o1" THEN "c1" ELSE NoCid]
    /\ last_synced = [b \in BotKeys |-> <<>>]
    /\ avatars = {}
    /\ platform = NoPlatformProfile
    /\ waits = {}
    /\ syncs = NoSyncs
    /\ inbound = NoInbound
    /\ prompts = StartPrompts(personas)
    /\ persona_files = {}
    /\ last = Idle

NextMatch ==
    \/ \E text \in MatchTexts : MatchKeyword(text)
    \/ \E text \in MatchTexts : OnMessage(Event("o1", "user", FALSE, text, FALSE), AllOk)

SpecMatch == InitMatch /\ [][NextMatch]_vars

-----------------------------------------------------------------------------
(* The command handlers behind the permission gate *)

\* admin_commands as configured: the defaults of main.py and of
\* core/config.py, every command, and none
AdminCommandLists ==
    {DefaultAdminCommands,
     {CmdSwitch, CmdCreate, CmdUpdate, CmdDelete, CmdView, CmdAvatar},
     CommandNames,
     {}}

GateEvents ==
    {Event("o1", sender, TRUE, <<"p", "p", Blank, "a">>, TRUE) : sender \in Senders}

\* persona a exists and has an avatar; no persona c exists
InitGate ==
    /\ pc = "ready"
    /\ config \in {[ConfigWith(SwitchRaw) EXCEPT
                       !.auto_switch_scope = "global",
                       !.clear_context_on_switch = TRUE,
                       !.enable_auto_switch_announce = TRUE,
                       !.admin_commands = ac] : ac \in AdminCommandLists}
    /\ parse_call = NoParseCall
    /\ SettingsAre(LoadSettings(config))
    /\ personas = {PA, PB}
    /\ configs = [c \in ConfIds |-> PlainConf]
    /\ conversations = StartConversations
    /\ curr_cid = [o \in Origins |-> IF o = "o1" THEN "c1" ELSE NoCid]
    /\ last_synced = [b \in BotKeys |-> PB]
    /\ avatars = {PA}
    /\ platform = NoPlatformProfile
    /\ waits = {}
    /\ syncs = NoSyncs
    /\ inbound = NoInbound
    /\ prompts = StartPrompts(personas)
    /\ persona_files = {}
    /\ last = Idle

NextGate ==
    \/ \E e \in GateEvents : CmdHelpHandler(e)
    \/ \E e \in GateEvents : CmdListHandler(e)
    \/ \E e \in GateEvents, pid \in {PA, <<"c">>} : CmdViewHandler(e, pid)
    \/ \E e \in GateEvents, pid \in {PA, <<"c">>} : CmdCreateHandler(e, pid)
    \/ \E e \in GateEvents, pid \in {PA, <<"c">>} : CmdUpdateHandler(e, pid)
    \/ \E e \in GateEvents, pid \in {PA, <<"c">>} : CmdAvatarHandler(e, pid)
    \/ \E e \in GateEvents, pid \in {PA, <<"c">>} : CmdDeleteHandler(e, pid)
    \/ \E e \in GateEvents : OnQuickSwitch(e, AllOk)

SpecGate == InitGate /\ [][NextGate]_vars

-----------------------------------------------------------------------------
(* The permission check on command names in any letter case *)

\* entries of the admin_commands list: in lower case, capitalised and with
\* blanks around
PermEntries ==
    {CmdView, <<"V", "i", "e", "w">>, <<Blank, "v", "i", "e", "w", Blank>>,
     CmdCreate, CmdHelp}

\* command names handed to check_permission
PermCommands == {CmdView, <<"V", "i", "e", "w">>, CmdCreate, CmdHelp}

InitPerm ==
    /\ pc = "ready"
    /\ config \in {[ConfigWith(<<>>) EXCEPT !.admin_commands = ac] : ac \in SUBSET PermEntries}
    /\ parse_call = NoParseCall
    /\ SettingsAre(LoadSettings(config))
    /\ QuietHost

\* a call of PersonaPlus.check_permission
CheckPermission(sender, command) ==
    /\ pc = "ready"
    /\ Handled([Idle EXCEPT
                   !.op = "check_permission",
                   !.sender = sender,
                   !.text = command,
                   !.outcome = IF check_permission(sender, command, admin_commands)
                               THEN "allowed" ELSE "denied"])

NextPerm == \E sender \in Senders, command \in PermCommands : CheckPermission(sender, command)

SpecPerm == InitPerm /\ [][NextPerm]_vars

-----------------------------------------------------------------------------
(* Claims about the keyword matcher *)

\* keyword occurs in text as a substring when case is ignored
OccursIgnoringCase(keyword, text) ==
    \E off \in 0..(Len(text) - Len(keyword)) :
        \A j \in 1..Len(keyword) : LowerCh(keyword[j]) = LowerCh(text[off + j])

\* positions of the mappings whose keyword occurs in the text
Hits(mappings, text) ==
    {i \in 1..Len(mappings) : OccursIgnoringCase(mappings[i].keyword, text)}

\* the smallest position of a non-empty set of positions
FirstOf(S) == CHOOSE i \in S : \A j \in S : i <= j

\* C1: the matcher returns the first mapping, in list order, whose keyword is
\* a case-insensitive substring of the text, and none when no keyword occurs;
\* the keyword listener switches to that first mapping's persona and to no
\* later one.
C1_FirstMatchWins ==
    LET hits == Hits(keyword_mappings, last.text)
    IN  /\ last.op = "match_keyword" =>
               last.matched = IF hits = {} THEN NoMatch
                              ELSE Match(keyword_mappings[FirstOf(hits)])
        /\ (last.op = "on_message" /\ last.text # <<>> /\ keyword_switch_enabled) =>
               IF hits = {} THEN ~last.switched /\ last.matched = NoMatch
               ELSE /\ last.switched
                    /\ last.persona_id = keyword_mappings[FirstOf(hits)].persona_id
                    /\ conversations[curr_cid[last.origin]].persona_id = last.persona_id
        /\ (last.op = "on_message" /\ ~keyword_switch_enabled) => ~last.switched

\* C1 witness: two mappings of different personas both occur in the text,
\* the first only when case is ignored, and the listener switched to the first
C1_Witness_TwoHitsFirstTaken ==
    /\ last.op = "on_message"
    /\ last.switched
    /\ Len(keyword_mappings) = 2
    /\ Hits(keyword_mappings, last.text) = {1, 2}
    /\ ~StrIn(keyword_mappings[1].keyword, last.text)
    /\ last.persona_id = PA
    /\ conversations["c1"].persona_id = PA

-----------------------------------------------------------------------------
(* Claims about the configuration parser *)

\* the text between the first and the last non-blank character of s
Trimmed(s) ==
    LET solid == {i \in 1..Len(s) : ~IsSpace(s[i])}
    IN  IF solid = {} THEN <<>>
        ELSE SubSeq(s, CHOOSE i \in solid : \A j \in solid : i <= j,
                       CHOOSE i \in solid : \A j \in solid : j <= i)

\* what a line must parse to: split at its first colon, both sides trimmed
ExpectedParse(s) ==
    LET colons == {i \in 1..Len(s) : s[i] = Colon}
        first == CHOOSE i \in colons : \A j \in colons : i <= j
        k == Trimmed(SubSeq(s, 1, first - 1))
        p == Trimmed(SubSeq(s, first + 1, Len(s)))
    IN  IF colons = {} THEN ParseError("InvalidFormat")
        ELSE IF p = <<>> THEN ParseError("InvalidPersonaId")
        ELSE IF k = <<>> THEN ParseError("InvalidKeyword")
        ELSE Parsed(KeywordMapping(k, p))

\* C2: parse_mapping_entry splits a line at its first ':' only; with both
\* trimmed sides non-empty it yields {keyword, persona_id} (persona_id may
\* contain ':'); no ':' is the invalid-format error, an empty right side the
\* invalid-persona-id error (also when the left side is empty too), an empty
\* left side alone the invalid-keyword error.
C2_ParseSplitsOnFirstColon ==
    parse_call.result # NoResult =>
        parse_call.result = ExpectedParse(parse_call.entry)

\* C2 witness: a parsed line whose persona_id itself contains ':'
C2_Witness_PersonaWithColon ==
    /\ parse_call.result.ok
    /\ \E i \in 1..Len(parse_call.result.mapping.persona_id) :
          parse_call.result.mapping.persona_id[i] = Colon

\* a configuration line that is kept: not blank and not a comment once
\* trimmed, and it parses
IsGoodLine(l) ==
    /\ Trimmed(l) # <<>>
    /\ Trimmed(l)[1] # Hash
    /\ parse_mapping_entry(Trimmed(l)).ok

\* a configuration line that is malformed: not blank, no comment, no parse
IsMalformedLine(l) ==
    /\ Trimmed(l) # <<>>
    /\ Trimmed(l)[1] # Hash
    /\ ~parse_mapping_entry(Trimmed(l)).ok

ExpectedMappings(raw) ==
    LET good == SelectSeq(IF raw = NoneRaw THEN <<>> ELSE SplitLines(raw), IsGoodLine)
    IN  [i \in 1..Len(good) |-> parse_mapping_entry(Trimmed(good[i])).mapping]

\* C3: loading never stops at a bad line: the loaded list is the parsed
\* mappings of the lines that are non-blank, no comment and parse, in the
\* order of the configuration lines, and every loaded mapping has a
\* non-empty keyword and a non-empty persona_id.
C3_LoadDropsOnlyBadLines ==
    (pc = "ready" /\ config.present) =>
        /\ keyword_mappings = ExpectedMappings(config.keyword_mappings)
        /\ \A i \in 1..Len(keyword_mappings) :
              /\ keyword_mappings[i].keyword # <<>>
              /\ keyword_mappings[i].persona_id # <<>>

\* C3 witness: a malformed line precedes a line that was loaded
C3_Witness_BadLineThenGoodLine ==
    /\ pc = "ready"
    /\ config.present
    /\ config.keyword_mappings # NoneRaw
    /\ Len(keyword_mappings) >= 1
    /\ LET L == SplitLines(config.keyword_mappings)
       IN  \E i, j \in 1..Len(L) : i < j /\ IsMalformedLine(L[i]) /\ IsGoodLine(L[j])

-----------------------------------------------------------------------------
(* Claims about the permission gate *)

GatedOps == {"help", "list", "view", "create", "update", "avatar", "delete",
             "quick_switch"}

\* the command name a handler hands to the gate
CommandOf(op) ==
    CASE op = "help" -> CmdHelp
      [] op = "list" -> CmdList
      [] op = "view" -> CmdView
      [] op = "create" -> CmdCreate
      [] op = "update" -> CmdUpdate
      [] op = "avatar" -> CmdAvatar
      [] op = "delete" -> CmdDelete
      [] OTHER -> CmdSwitch

\* the handler of the step got as far as its gate
ReachedGate(rec) ==
    /\ rec.op \in GatedOps
    /\ rec.op = "quick_switch" => rec.persona_id # <<>>

\* C4: when a command's name is in admin_commands and the sender is not an
\* admin, the handler replies with the denial only and does nothing else: no
\* persona read, create, update or delete, no wait flow, no switch, no avatar
\* deletion, no cache reset. This holds for help, list, view, create, update,
\* avatar, delete and the quick switch (gated as "switch").
C4_DeniedCommandDoesNothing ==
    [][(/\ ReachedGate(last')
        /\ CommandOf(last'.op) \in admin_commands
        /\ last'.sender \notin AdminIds)
       => /\ last'.replies = <<Denied>>
          /\ last'.calls = <<>>
          /\ ~last'.switched /\ ~last'.ltm
          /\ UNCHANGED <<hostVars, syncVars, waits, settingsVars>>]_vars

\* C4 witness: a non-admin was denied the deletion of an existing persona
\* that has an avatar
C4_Witness_DeniedDelete ==
    /\ last.op = "delete"
    /\ last.sender = "user"
    /\ last.replies = <<Denied>>
    /\ last.persona_id \in personas
    /\ last.persona_id \in avatars

-----------------------------------------------------------------------------
(* Claims about the persona switch *)

SwitchOps == {"quick_switch", "on_message", "core_switch"}

\* the step is a switch attempt for some persona
SwitchAttempt(rec) == rec.op \in SwitchOps /\ rec.persona_id # <<>>

\* C5: a switch to a persona that does not exist fails at the lookup and has
\* no side effect: no config write, no conversation update, no profile sync,
\* no LTM flag. No switch ever creates a persona.
C5_AbsentPersonaNoEffect ==
    [][SwitchAttempt(last') =>
          /\ personas' = personas
          /\ last'.persona_id \notin personas =>
                /\ ~last'.switched
                /\ ~last'.ltm
                /\ \A i \in 1..Len(last'.calls) : last'.calls[i] = "get_persona"
                /\ Len(last'.calls) = 1
                /\ UNCHANGED <<configs, conversations, curr_cid, last_synced, platform,
                               avatars, waits>>]_vars

\* C5 witness: a keyword switch to the missing persona c raised at the lookup
C5_Witness_KeywordToMissingPersona ==
    /\ last.op = "on_message"
    /\ last.persona_id = <<"c">>
    /\ last.raised
    /\ auto_switch_scope = "global"
    /\ clear_context_on_switch

ConfigCalls == {"get_conf", "write_origin_conf", "save_origin_conf",
                "default_conf", "write_default_conf", "save_default_conf"}

WriteCalls == {"write_origin_conf", "save_origin_conf",
               "write_default_conf", "save_default_conf"}

\* C6: the scope alone decides which config a switch writes: none under
\* "conversation" and under any other value, the origin's config and never
\* the global one under "session", the global one and never an origin's
\* under "global".
C6_ScopeSelectsStore ==
    [][SwitchAttempt(last') =>
          LET written == {last'.calls[i] : i \in 1..Len(last'.calls)} \cap WriteCalls
          IN  /\ auto_switch_scope \notin {"session", "global"} =>
                    configs' = configs /\ written = {}
              /\ auto_switch_scope = "session" =>
                    /\ configs'["default"] = configs["default"]
                    /\ \A o \in Origins \ {last'.origin} : configs'[o] = configs[o]
                    /\ written \subseteq {"write_origin_conf", "save_origin_conf"}
              /\ auto_switch_scope = "global" =>
                    /\ \A o \in Origins : configs'[o] = configs[o]
                    /\ written \subseteq {"write_default_conf", "save_default_conf"}]_vars

\* C6 witness: a session-scope switch wrote the origin's config and left the
\* global one without a default persona
C6_Witness_SessionWrite ==
    /\ last.switched
    /\ auto_switch_scope = "session"
    /\ configs[last.origin].mem = ProviderWith(last.persona_id)
    /\ configs["default"] = PlainConf

\* the config holds X as default_personality and has been saved with it
HoldsSaved(c, pid) ==
    /\ c.mem = ProviderWith(pid)
    /\ c.disk = c.mem

C8_ConversationPointer ==
    [][(last'.op \in SwitchOps /\ last'.switched) =>
          LET cid == curr_cid[last'.origin]
              updates == {i \in 1..Len(last'.calls) : last'.calls[i] = "update_conversation"}
          IN  /\ curr_cid' = curr_cid
              /\ \A c \in Cids : conversations'[c].exists = conversations[c].exists
              /\ \A c \in Cids \ {cid} : conversations'[c] = conversations[c]
              /\ IF cid = NoCid
                 THEN updates = {} /\ conversations' = conversations
                 ELSE /\ Cardinality(updates) = 1
                      /\ conversations'[cid].persona_id = last'.persona_id]_vars

\* C8 witness: a global-scope switch on origin o1 set the persona of its
\* current conversation while o2's conversation kept another persona
C8_Witness_GlobalScopeUpdate ==
    /\ last.switched
    /\ last.origin = "o1"
    /\ auto_switch_scope = "global"
    /\ conversations["c1"].persona_id = last.persona_id
    /\ conversations["c2"].persona_id # last.persona_id

\* the place of a call in the order of a switch; 0 for a call the order
\* does not mention
Rank(call) ==
    CASE call = "get_persona" -> 1
      [] call \in ConfigCalls -> 2
      [] call \in {"get_curr_conversation_id", "update_conversation"} -> 3
      [] call = "maybe_sync_profile" -> 4
      [] call \in {"set_qq_profile", "set_group_card", "set_qq_avatar"} -> 5
      [] call = "plain_result" -> 6
      [] OTHER -> 0

\* C9: a successful switch runs in the order persona lookup, config write
\* and save, conversation update, profile sync, reply; no profile-sync call
\* comes before the config write and the conversation update of that switch.
C9_SwitchOrder ==
    (last.op \in SwitchOps /\ last.switched) =>
        LET calls == last.calls
            ranked == {i \in 1..Len(calls) : Rank(calls[i]) # 0}
        IN  /\ calls[1] = "get_persona"
            /\ \A i, j \in ranked : i < j => Rank(calls[i]) <= Rank(calls[j])
            /\ \E i \in ranked : calls[i] = "get_curr_conversation_id"
            /\ \E i \in ranked : calls[i] = "maybe_sync_profile"
            /\ auto_switch_scope \in {"session", "global"} =>
                   \E i \in ranked : Rank(calls[i]) = 2

\* C9 witness: a switch that saved the global config, updated the
\* conversation, called the platform and replied
C9_Witness_AllSteps ==
    /\ last.switched
    /\ \A c \in {"save_default_conf", "update_conversation", "set_qq_profile",
                 "plain_result"} :
          \E i \in 1..Len(last.calls) : last.calls[i] = c

\* C10 as stated: a switch through a plugin handler (quick switch or keyword
\* listener) flags the event for LTM session cleanup exactly when
\* clear_context_on_switch is set.
C10_Original_LtmFlagFollowsSetting ==
    (last.op \in {"quick_switch", "on_message"} /\ last.switched) =>
        (last.ltm <=> clear_context_on_switch)

-----------------------------------------------------------------------------
(* Claims about the profile sync of a switch *)

PlatformCalls == {"set_qq_profile", "set_group_card", "set_qq_avatar"}

\* C11: a failure of any platform profile call (nickname, group card,
\* avatar) during the sync step of a switch is swallowed: the switch
\* completes and gives its announce reply, and the config write and the
\* conversation update of that switch stay applied as written.
C11_SyncFailureSwallowed ==
    [][(last'.op \in SwitchOps /\ last'.failed # {}) =>
          LET pid == last'.persona_id
              cid == curr_cid[last'.origin]
          IN  /\ last'.failed \subseteq PlatformCalls
              /\ last'.switched /\ ~last'.raised
              /\ Len(last'.replies) = 1
              /\ last'.replies[1].persona_id = pid
              /\ last'.calls[Len(last'.calls)] = "plain_result"
              /\ auto_switch_scope = "global" => HoldsSaved(configs'["default"], pid)
              /\ auto_switch_scope = "session" => HoldsSaved(configs'[last'.origin], pid)
              /\ conversations'[cid].persona_id = pid
              /\ conversations'[cid].history = <<>>]_vars

\* C11 witness: one switch in which the group card call and the avatar call
\* both failed
C11_Witness_CardAndAvatarFailed ==
    /\ last.op = "quick_switch"
    /\ last.failed = {"set_group_card", "set_qq_avatar"}
    /\ last.switched

\* C12: switching to the same persona twice on the same origin and in the
\* same scope, with nothing in between, leaves the configs and the
\* conversations (persona and history) after the second switch as they were
\* after the first.
C12_SwitchIdempotent ==
    [][(/\ last.op \in SwitchOps /\ last.switched
        /\ last'.op \in SwitchOps /\ last'.switched
        /\ last'.persona_id = last.persona_id
        /\ last'.origin = last.origin)
       => /\ configs' = configs
          /\ conversations' = conversations
          /\ curr_cid' = curr_cid]_vars

\* C12 witness: the second of two successive session-scope switches to one
\* persona on an origin with a config and a current conversation
C12_Witness_SecondSwitch ==
    /\ last.again
    /\ last.switched
    /\ last.origin = "o1"
    /\ auto_switch_scope = "session"
    /\ clear_context_on_switch
    /\ configs[last.origin].mem = ProviderWith(last.persona_id)
    /\ conversations["c1"].persona_id = last.persona_id

\* the number of times a call occurs in a sequence of calls
Times(call, calls) == Cardinality({i \in 1..Len(calls) : calls[i] = call})

\* an event the contract calls noise for a flow of the mode: its text is
\* empty after trimming and neither its message nor a quoted reply carries a
\* component the mode accepts
IsNoise(mode, text, comps) ==
    /\ Strip(text) = <<>>
    /\ ~\E i \in 1..Len(comps) :
          comps[i].kind \in (IF mode = "avatar" THEN {"image", "file"} ELSE {"file"})

\* C13: an event that arrives while a flow is armed, with empty text after
\* trimming and none of the mode's accepted components, leaves the flow
\* armed with its timeout reset, sends no reply, changes no persona, persona
\* file, avatar or cache entry, and does not stop the wait primitive.
C13_NoiseKeepsFlowArmed ==
    [][\A f \in waits :
          (/\ last'.op = "follow_up"
           /\ last'.origin = f.origin
           /\ IsNoise(f.mode, last'.text, last'.comps))
          => /\ waits' = (waits \ {f}) \cup {[f EXCEPT !.left = WaitTicks]}
             /\ last'.replies = <<>>
             /\ Times("controller.stop", last'.calls) = 0
             /\ UNCHANGED <<personas, prompts, persona_files, avatars, last_synced>>]_vars

\* C13 witness: a blank text with an image reached an armed update flow,
\* which is armed with a full timeout while another flow's clock has run
C13_Witness_ImageForUpdateFlow ==
    /\ last.op = "follow_up"
    /\ last.mode = "update"
    /\ Len(last.comps) = 1
    /\ last.calls = <<"controller.keep">>
    /\ \E f \in waits : f.origin = last.origin /\ f.left = WaitTicks
    /\ \E f \in waits : f.origin # last.origin /\ f.left < WaitTicks

\* C14: the waiter stops the wait primitive exactly once for a follow-up
\* that is not noise, whatever the outcome, and never for noise.
C14_StopExactlyOnce ==
    last.op = "follow_up"
    => Times("controller.stop", last.calls)
          = (IF IsNoise(last.mode, last.text, last.comps) THEN 0 ELSE 1)

\* C14 witness: a create flow whose host call failed with an exception that
\* is not a user error
C14_Witness_HostFailure ==
    /\ last.op = "follow_up"
    /\ last.mode = "create"
    /\ last.outcome = "failed"
    /\ last.replies[1].reason = "host_create_failed"
    /\ "create_persona" \in {last.calls[i] : i \in 1..Len(last.calls)}

\* the flow of an origin is armed in a set of flows
ArmedOn(o, flows) == \E w \in flows : w.origin = o

\* C15: from its arming to its end a flow sends exactly one reply: no step
\* of the flow that leaves it armed sends one, and the step that ends it sends one
\* reply, which is the success reply, the failure reply naming the action
\* and a reason, or the timeout reply.
C15_ExactlyOneReply ==
    [][\A f \in waits :
          /\ (/\ ArmedOn(f.origin, waits')
              /\ last'.op \in {"follow_up", "tick", "timeout"}
              /\ last'.origin = f.origin)
             => last'.replies = <<>>
          /\ ~ArmedOn(f.origin, waits')
             => /\ last'.origin = f.origin
                /\ last'.outcome \in {"succeeded", "failed", "timeout"}
                /\ Len(last'.replies) = 1
                /\ last'.replies[1].kind = last'.outcome
                /\ last'.replies[1].action = f.mode
                /\ last'.outcome = "failed" => last'.replies[1].reason # ""]_vars

\* C15 witness: an avatar flow ended Failed on a text without an image, with
\* its one reply
C15_Witness_AvatarFlowFailed ==
    /\ last.op = "follow_up"
    /\ last.mode = "avatar"
    /\ last.outcome = "failed"
    /\ Len(last.replies) = 1
    /\ last.replies[1].reason = "no_image"
    /\ ~ArmedOn(last.origin, waits)

\* the stores a flow may change
FlowStores == <<personas, prompts, persona_files, avatars, last_synced>>

\* C16: a flow whose deadline passes without a genuine follow-up sends the
\* timeout message of its mode and changes no persona, persona file, avatar
\* or cache entry.
C16_TimeoutNoMutation ==
    [][\A f \in waits :
          (f.left = 0 /\ ~ArmedOn(f.origin, waits'))
          => /\ last'.op = "timeout"
             /\ Len(last'.replies) = 1
             /\ last'.replies[1].kind = "timeout"
             /\ last'.replies[1].reason = (IF f.mode = "avatar" THEN "avatar" ELSE "content")
             /\ UNCHANGED FlowStores]_vars

\* C16 witness: an avatar flow that saw only noise timed out, and the
\* persona has no avatar
C16_Witness_AvatarTimeout ==
    /\ last.op = "timeout"
    /\ last.mode = "avatar"
    /\ last.replies[1].reason = "avatar"
    /\ ~ArmedOn(last.origin, waits)
    /\ avatars = {}

\* C17 as stated: every armed flow eventually ends, given only that its
\* timer and the delivery of its timeout make progress.  The code does not
\* satisfy it: each noise event restarts the timeout, so a flow that keeps
\* receiving noise before its deadline stays armed for ever.
C17_Original_ArmedFlowTerminates ==
    \A o \in Origins : ArmedOn(o, waits) ~> ~ArmedOn(o, waits)

\* C18 as stated: after terminate() no flow is still waiting.  The code does
\* not satisfy it: terminate() leaves every armed flow armed.
C18_Original_TeardownCancelsFlows ==
    pc = "terminated" => waits = {}

\* C19 as stated: after terminate() the last-synced cache has no entry for
\* any bot.  The code does not satisfy it: terminate() leaves the cache as
\* it is.
C19_Original_TeardownClearsCache ==
    pc = "terminated" => \A b \in BotKeys : last_synced[b] = <<>>

\* C20 as stated: a create flow that reaches the creation of a persona the
\* host already holds does not call the host's create_persona, leaves the
\* personas as they are and ends Failed with the already-exists reason.  The
\* code does not satisfy it: the already-exists error is caught by the
\* handler that calls create_persona.
C20_Original_CreateFailsWhenPersonaExists ==
    [][\A f \in waits :
          (/\ f.mode = "create"
           /\ f.persona_id \in personas
           /\ last'.op = "follow_up"
           /\ last'.origin = f.origin
           /\ Times("get_persona", last'.calls) > 0)
          => /\ Times("create_persona", last'.calls) = 0
             /\ personas' = personas
             /\ prompts' = prompts
             /\ last'.outcome = "failed"
             /\ last'.replies[1].reason = "already_exists"]_vars

\* C21 as stated: a permitted quick switch or a keyword switch to a persona
\* the host does not hold sends exactly one reply, which carries the
\* not-found reason, and switches nothing.  The code does not satisfy it
\* on the keyword path: on_message lets the lookup's error escape and sends
\* no reply.
C21_Original_NotFoundReported ==
    (/\ last.op \in {"quick_switch", "on_message"}
     /\ last.persona_id # <<>>
     /\ last.persona_id \notin personas
     /\ check_permission(last.sender, CmdSwitch, admin_commands))
    => /\ Len(last.replies) = 1
       /\ last.replies[1].kind = "not_found"
       /\ ~last.switched

\* C22 as stated: once the settings are loaded, manage_wait_timeout is a
\* positive integer, and it is 60 whenever there is no plugin configuration
\* or the configured value is missing, is not convertible to an integer or
\* converts to an integer that is not positive.  The code does not satisfy
\* it: without a plugin configuration the constructor's 120 stays.
C22_Original_WaitTimeoutPositiveDefault60 ==
    pc = "ready"
    => /\ manage_wait_timeout \in Nat \ {0}
       /\ (\/ ~config.present
           \/ config.manage_wait_timeout_seconds.kind = "missing"
           \/ ~ToInt(config.manage_wait_timeout_seconds).ok
           \/ ToInt(config.manage_wait_timeout_seconds).value <= 0)
          => manage_wait_timeout = 60

\* C23 as stated: check_permission denies exactly when the lower-cased
\* command is among the lower-cased, trimmed entries of the configured
\* admin_commands and the caller is no admin.  The code does not satisfy it:
\* it looks the command up as it is given.
C23_Original_GateLowersCommand ==
    last.op = "check_permission"
    => (last.outcome = "denied"
        <=> /\ Lower(last.text) \in {Strip(Lower(c)) : c \in config.admin_commands}
            /\ last.sender \notin AdminIds)

\* C24: a successful avatar flow for persona P removes every last-synced
\* entry whose value is P and leaves the other entries as they are, a failed
\* one leaves the cache as it is, and a switch to P that follows the
\* success calls the platform with P's avatar.
C24_AvatarSuccessResetsCache ==
    [][/\ \A f \in waits :
             (/\ f.mode = "avatar"
              /\ last'.op = "follow_up"
              /\ last'.origin = f.origin
              /\ last'.outcome \in {"succeeded", "failed"})
             => IF last'.outcome = "succeeded"
                THEN \A b \in BotKeys :
                        last_synced'[b] = IF last_synced[b] = f.persona_id
                                          THEN <<>> ELSE last_synced[b]
                ELSE last_synced' = last_synced
       /\ (/\ last.op = "follow_up" /\ last.mode = "avatar" /\ last.outcome = "succeeded"
           /\ last'.op = "quick_switch" /\ last'.switched
           /\ last'.persona_id = last.persona_id)
          => Times("set_qq_avatar", last'.calls) = 1]_vars

\* C24 witness: persona a was the persona synced last (the bot carries its
\* nickname), an avatar flow for a succeeded, and the cache names no persona
C24_Witness_CacheResetAfterSync ==
    /\ last.op = "follow_up"
    /\ last.mode = "avatar"
    /\ last.outcome = "succeeded"
    /\ platform.nickname = last.persona_id
    /\ \A b \in BotKeys : last_synced[b] = <<>>

\* C25: a successful switch on an origin with a current conversation leaves
\* that conversation with the empty history when clear_context_on_switch is
\* set; when it is not set the switch changes the conversation's persona
\* and nothing else of any conversation.
C25_HistoryResetFollowsSetting ==
    [][(/\ last'.op \in SwitchOps
        /\ last'.switched
        /\ curr_cid[last'.origin] # NoCid)
       => LET cid == curr_cid[last'.origin]
          IN  conversations' =
                  [conversations EXCEPT
                      ![cid].persona_id = last'.persona_id,
                      ![cid].history = IF clear_context_on_switch THEN <<>> ELSE @]]_vars

\* C25 witness: a switch without clear_context_on_switch gave the current
\* conversation, which holds a chat turn, the new persona
C25_Witness_HistoryKept ==
    /\ last.op = "quick_switch"
    /\ last.switched
    /\ last.origin = "o1"
    /\ ~clear_context_on_switch
    /\ conversations["c1"].persona_id = last.persona_id
    /\ conversations["c1"].history # <<>>

\* the nickname call of a sync: the one platform call that is not the
\* avatar call, or none
NicknameCalls(calls) ==
    {calls[i] : i \in 1..Len(calls)} \cap {"set_qq_profile", "set_group_card"}

\* C26: in a profile sync with nickname and avatar sync on, the avatar of a
\* persona that has an avatar file is sent to the platform whether the
\* nickname call succeeded, failed or was not made, and a nickname or group
\* card that was applied stays applied when the avatar call fails.
C26_SyncStepsIsolated ==
    [][(/\ last'.op \in SwitchOps
        /\ last'.switched
        /\ qq.enabled /\ qq.sync_nickname /\ qq.sync_avatar
        /\ \E b \in BotKeys : last_synced[b] # last'.persona_id)
       => /\ last'.persona_id \in avatars
             => Times("set_qq_avatar", last'.calls) = 1
          /\ ("set_qq_profile" \in NicknameCalls(last'.calls) \ last'.failed)
             => platform'.nickname = format_nickname(last'.persona_id)
          /\ ("set_group_card" \in NicknameCalls(last'.calls) \ last'.failed)
             => platform'.card = format_nickname(last'.persona_id)]_vars

\* C26 witness: the nickname was applied and stays although the avatar call
\* that followed it failed
C26_Witness_NicknameKeptAvatarFailed ==
    /\ last.op = "quick_switch"
    /\ last.switched
    /\ last.failed = {"set_qq_avatar"}
    /\ Times("set_qq_profile", last.calls) = 1
    /\ platform.nickname = last.persona_id
    /\ platform.avatar # last.persona_id

\* C27: a flow is armed with the full timeout; each noise event gives it
\* the full timeout again, counted from that event; nothing else but the
\* passing of time changes its remaining time; and it times out only when
\* no time remains.  So it times out one full timeout after it was armed
\* or after its latest noise event, and not earlier.
C27_DeadlineSlidesOnNoise ==
    [][/\ \A g \in waits' : ~ArmedOn(g.origin, waits) => g.left = WaitTicks
       /\ \A f \in waits :
             IF ArmedOn(f.origin, waits')
             THEN \E g \in waits' :
                     /\ g.origin = f.origin
                     /\ g.left = CASE last'.op = "follow_up" /\ last'.origin = f.origin
                                         -> WaitTicks
                                   [] last'.op = "tick" /\ last'.origin = f.origin
                                         -> f.left - 1
                                   [] OTHER -> f.left
             ELSE last'.outcome = "timeout" => f.left = 0]_vars

\* C27 witness: the avatar flow of origin o2, the only flow armed, has its
\* full timeout after a noise event
C27_Witness_FullTimeoutAfterNoise ==
    /\ last.op = "follow_up"
    /\ last.outcome = "noise"
    /\ last.mode = "avatar"
    /\ Cardinality(waits) = 1
    /\ \A f \in waits : f.origin = last.origin /\ f.left = WaitTicks
    /\ last.origin = "o2"

\* C28 as stated: a create or update follow-up that carries a file
\* component, in the message or in a quoted reply, whatever else it
\* carries, takes the persona text from the file: the file is fetched and a
\* flow that succeeds stores the file's text; without a file a flow that
\* succeeds stores the trimmed message text.  The code does not satisfy it:
\* a file that comes after an image is not looked at.
C28_Original_FilePreferred ==
    [][\A f \in waits :
          (/\ f.mode \in {"create", "update"}
           /\ last'.op = "follow_up"
           /\ last'.origin = f.origin
           /\ ~IsNoise(f.mode, last'.text, last'.comps))
          => IF \E i \in 1..Len(last'.comps) : last'.comps[i].kind = "file"
             THEN /\ Times("get_file", last'.calls) = 1
                  /\ last'.outcome = "succeeded" => prompts'[f.persona_id] = <<"f">>
             ELSE /\ Times("get_file", last'.calls) = 0
                  /\ last'.outcome = "succeeded"
                     => prompts'[f.persona_id] = Strip(last'.text)]_vars

\* the host calls that create or change a persona
HostMutations(calls) ==
    Times("create_persona", calls) + Times("update_persona", calls)

\* C29: a create or update follow-up whose file decodes neither as UTF-8
\* nor as GBK ends the flow Failed with the encoding error that names the
\* save path, calls neither create_persona nor update_persona, and has
\* written the file's bytes to the persona's text file; one whose file is
\* empty ends the flow Failed and writes nothing.
C29_UndecodableFileSavedEmptyNot ==
    [][\A f \in waits :
          (/\ f.mode \in {"create", "update"}
           /\ last'.op = "follow_up"
           /\ last'.origin = f.origin
           /\ Len(last'.comps) > 0
           /\ last'.comps[1].kind = "file")
          => /\ last'.file \in {"undecodable", "image"}
                => /\ last'.outcome = "failed"
                   /\ last'.replies[1].reason = "encoding"
                   /\ HostMutations(last'.calls) = 0
                   /\ personas' = personas /\ prompts' = prompts
                   /\ persona_files' = persona_files \cup {f.persona_id}
             /\ last'.file = "empty"
                => /\ last'.outcome = "failed"
                   /\ HostMutations(last'.calls) = 0
                   /\ Times("write_persona_file", last'.calls) = 0
                   /\ personas' = personas /\ prompts' = prompts
                   /\ persona_files' = persona_files]_vars

\* C29 witness: a create flow for a persona the host does not hold failed
\* on an undecodable file, and the persona has a text file
C29_Witness_UndecodableFileKept ==
    /\ last.op = "follow_up"
    /\ last.mode = "create"
    /\ last.file = "undecodable"
    /\ last.outcome = "failed"
    /\ last.persona_id \notin personas
    /\ last.persona_id \in persona_files

\* C30: a permitted delete of a persona the host does not hold replies with
\* the not-found reason and leaves the avatar files and the last-synced
\* cache as they are; a delete of a persona the host holds removes the
\* persona, its avatar file and every cache entry that names it, and leaves
\* the other avatar files and cache entries as they are.
C30_DeleteCleansAfterHost ==
    [][(/\ last'.op = "delete"
        /\ check_permission(last'.sender, CmdDelete, admin_commands))
       => LET pid == last'.persona_id
          IN  IF pid \notin personas
              THEN /\ last'.replies = <<Reply("not_found", pid)>>
                   /\ Times("delete_avatar", last'.calls) = 0
                   /\ avatars' = avatars
                   /\ last_synced' = last_synced
              ELSE /\ personas' = personas \ {pid}
                   /\ avatars' = avatars \ {pid}
                   /\ \A b \in BotKeys :
                         last_synced'[b] = IF last_synced[b] = pid THEN <<>>
                                           ELSE last_synced[b]]_vars

\* C30 witness: the delete of a persona the host no longer holds was
\* refused while the persona has an avatar file, saved by a flow that
\* outlived the persona
C30_Witness_NotFoundKeepsAvatar ==
    /\ last.op = "delete"
    /\ last.replies = <<Reply("not_found", last.persona_id)>>
    /\ last.persona_id \in avatars
    /\ last.persona_id \notin personas

\* the platform calls of a step that were made and did not fail
AppliedCalls(rec) ==
    ({rec.calls[i] : i \in 1..Len(rec.calls)} \cap PlatformCalls) \ rec.failed

\* C31: the last-synced entry of a bot becomes a persona only in a switch
\* to that persona whose sync applied the nickname, the group card or the
\* avatar; a switch whose sync applied nothing leaves the map as it is; and
\* a switch to the persona the entry already names makes no platform call.
C31_CacheSetOnlyWhenApplied ==
    [][/\ \A b \in BotKeys :
             (last_synced'[b] # last_synced[b] /\ last_synced'[b] # <<>>)
             => /\ last'.op \in SwitchOps
                /\ last'.switched
                /\ last_synced'[b] = last'.persona_id
                /\ AppliedCalls(last') # {}
       /\ (last'.op \in SwitchOps /\ last'.switched)
          => /\ AppliedCalls(last') = {} => last_synced' = last_synced
             /\ AppliedCalls(last') # {}
                => \A b \in BotKeys : last_synced'[b] = last'.persona_id
             /\ (\A b \in BotKeys : last_synced[b] = last'.persona_id)
                => {last'.calls[i] : i \in 1..Len(last'.calls)} \cap PlatformCalls = {}]_vars

\* C31 witness: a switch to persona b, whose nickname call failed and which
\* has no avatar file, left the entry naming persona a
C31_Witness_FailedSyncKeepsEntry ==
    /\ last.op = "quick_switch"
    /\ last.switched
    /\ last.persona_id = PB
    /\ last.failed = {"set_qq_profile"}
    /\ \A b \in BotKeys : last_synced[b] = PA

\* C32 as stated: when the sync of a switch to persona P applied one of the
\* nickname and avatar steps and the other failed, the next switch to P
\* makes the failed platform call again.  The code does not satisfy it: the
\* applied step records P in the cache, and the cache suppresses the whole
\* sync of the next switch.
C32_Original_FailedStepRetried ==
    [][(/\ last.op \in SwitchOps /\ last.switched
        /\ last.failed # {}
        /\ AppliedCalls(last) # {}
        /\ last'.op \in SwitchOps /\ last'.switched
        /\ last'.persona_id = last.persona_id)
       => \A c \in last.failed : Times(c, last'.calls) = 1]_vars

\* C33: when a switch finishes its profile sync while no other switch of the
\* bot is suspended at a platform call and the cache names its persona, the
\* account carries what that switch applied: the nickname it set is still
\* the account's nickname and the avatar it set is still the account's
\* avatar (no call of another switch has overwritten them)
C33_Original_CacheNamesLastApplied ==
    [][\A o \in Origins :
          (/\ syncs[o].at # "none"
           /\ \A p \in Origins : syncs'[p].at = "none"
           /\ syncs'[o].nickname_applied \/ syncs'[o].avatar_synced
           /\ last_synced'[syncs[o].bot_key] = syncs[o].persona_id)
          => /\ syncs'[o].nickname_applied
                => platform'.nickname = format_nickname(syncs[o].persona_id)
             /\ syncs'[o].avatar_synced
                => platform'.avatar = syncs[o].persona_id]_vars

\* C34: a message the quick-switch command has switched is not switched a
\* second time when the keyword listener handles it
C34_Original_OneSwitchPerMessage ==
    [][(/\ inbound.present
        /\ inbound.switches = 1
        /\ "quick_switch" \notin inbound.todo
        /\ last'.op = "on_message"
        /\ inbound'.event = inbound.event)
       => inbound'.switches = 1]_vars

=============================================================================
